---- MODULE Spec2Model ----
(***************************************************************************)
(* State-machine model of the Multimode Arc Reactor clock firmware: the    *)
(* incremental screen-update routines of the clock modes (Apple Rings, arc *)
(* analog, weather, arc digital, GIF digital) and the trackers they keep.  *)
(*                                                                         *)
(* The display is modelled at the granularity the code draws at: a ring is *)
(* a row of angular sectors between the angles at which arcs begin or end, *)
(* each holding the colour that fills it; the round end caps that overlap  *)
(* a sector are kept beside it.  The other modes' digits, hands and        *)
(* segments are kept by value.                                             *)
(***************************************************************************)
EXTENDS Integers, Sequences, FiniteSets, TLC

(***************************************************************************)
(* Bounds of the model.  The time source delivers values from sampled      *)
(* sets: the two ends of each range (EdgeRun values at each end of the     *)
(* seconds range) and values in the middle.                                *)
(***************************************************************************)
EdgeRun == 1

HourVals == {0, 11, 12, 13, 23}
MinuteVals == {0, 10, 59}
\* The addresses that malloc can hand out, and the largest size of a GIF file
\* in bytes.
MaxBuffers == 2
GifFileSize == 3

\* The entries of the colour table (100 in the source) and the number of LED
\* colours.
MaxMappings == 2
\* The times that the mappings file fails to open.
MaxOpenFailures == 1
ColorCount == 2

SecondVals == (0 .. (EdgeRun - 1)) \cup {10} \cup ((59 - EdgeRun) .. 59)

(***************************************************************************)
(* Program constants.                                                      *)
(***************************************************************************)
MODE_ARC_DIGITAL == 0
MODE_ARC_ANALOG == 1
MODE_GIF_DIGITAL == 3
MODE_PIPBOY == 2
MODE_WEATHER == 4
MODE_APPLE_RINGS == 5

HOURS_RING_RADIUS == 45
MINUTES_RING_RADIUS == 75
SECONDS_RING_RADIUS == 105
RING_THICKNESS == 16

minuteDegrees == 6
secondDegrees == 6

\* Colours (16-bit RGB565 values).
TFT_BLACK == 0
TFT_WHITE == 65535

APPLE_RINGS_BG == TFT_BLACK
APPLE_BLUE == 1279
APPLE_GREEN == 2016
APPLE_RED == 63488
APPLE_BLUE_BG == 537
APPLE_GREEN_BG == 768
APPLE_RED_BG == 16384

HOUR_HAND_COLOR == TFT_WHITE
MINUTE_HAND_COLOR == 65504
SECOND_RING_COLOR == 63488
CENTER_DOT_COLOR == 2047
HOUR_MARKER_COLOR == 2047

WEATHER_BG == TFT_BLACK
WEATHER_TEXT == TFT_WHITE

IRONMAN_CYAN == 2047
CYAN_COLOR == 2047
TEXT_BACKGROUND_COLOR == 1

\* The colour of the seconds segments of the active theme (its default).
getCurrentSecondRingColor == 1311

\* The colour argument logged for a call that draws an image, not a colour.
NoColor == -1

\* The null pointer; the addresses of the heap are 1 .. MaxBuffers.
NULL == 0

RingRadii == {HOURS_RING_RADIUS, MINUTES_RING_RADIUS, SECONDS_RING_RADIUS}

VARIABLES
  currentMode,        \* the active clock mode
  hours, minutes, seconds, is24Hour,
  needClockRefresh,
  tft,                \* the display: what is shown, and the log of draw calls
  \* apple_rings_theme.h
  prevRingHours, prevRingMinutes, prevRingSeconds, fullRedrawDone,
  \* arc_analog.h (prevMinuteXY stands for the pair prevMinuteX, prevMinuteY)
  prevSecond, prevMinuteXY, prevHourXY, prevMinuteAngle, prevHourAngle,
  \* weather_theme.h (lastSecond is the static of updateWeatherSecondsIndicator)
  prevWeatherHours, prevWeatherMinutes, prevWeatherSeconds, lastSecond,
  \* arc_digital.h
  prevHours, prevMinutes, prevSeconds, prevColonState, showColon,
  \* gif_digital.h
  prevHoursGif, prevMinutesGif, prevSecondsGif, prevColonStateGif, showColonGif,
  \* gif_digital.h: the GIF file in memory, and the decoder (the buffer it reads)
  gifDigitalBuffer, gifDigitalSize, gifDigitalClock,
  \* pipboy.h
  gifBuffer, gifSize, gif,
  heap,               \* the addresses that malloc has handed out and free has not taken back
  freedTwice,         \* free was called on an address that was not allocated
  played,             \* what the frames played by the last operation were read from
  gifLoaded,          \* what the last load of a GIF returned
  \* theme_color_memory.h; colorMapFile is the file /bgcolors.txt
  colorMappings, numColorMappings, colorMapFile,
  fileWritten,        \* whether the last operation rewrote the mappings file
  openFailures,       \* the times that the mappings file has failed to open
  request,            \* the arguments of saveThemeColorPreference, when it ran last
  currentLedColor,    \* what getCurrentLedColor returns
  asked,              \* per file name, the last colour it was to be remembered with
  got,                \* the last call of getThemeColorPreference and what it returned
  \* theme_manager.h
  currentThemeName, currentThemeId, modeColors,
  eeprom,             \* the bytes that the EEPROM object holds
  themeArg,           \* the file name that setThemeFromFilename ran on last
  loadCall,           \* the last call of loadSavedThemeAndMode and what it gave
  ticked,             \* the time was set and the mode's update has not run yet
  lastOp,             \* the last operation that ran
  repeated,           \* it ran directly after a run of the same update routine
  pre                 \* the trackers as they were before the last operation

timeVars == <<hours, minutes, seconds>>
appleVars == <<prevRingHours, prevRingMinutes, prevRingSeconds, fullRedrawDone>>
analogVars == <<prevSecond, prevMinuteXY, prevHourXY, prevMinuteAngle, prevHourAngle>>
weatherVars == <<prevWeatherHours, prevWeatherMinutes, prevWeatherSeconds, lastSecond>>
digitalVars == <<prevHours, prevMinutes, prevSeconds, prevColonState, showColon>>
gifVars == <<prevHoursGif, prevMinutesGif, prevSecondsGif, prevColonStateGif, showColonGif>>
bufferVars == <<gifDigitalBuffer, gifDigitalSize, gifDigitalClock, gifBuffer, gifSize,
                gif, heap, freedTwice, played, gifLoaded>>
memoryVars == <<colorMappings, numColorMappings, colorMapFile, fileWritten,
                openFailures, request, currentLedColor, asked, got>>
themeVars == <<currentThemeName, currentThemeId, modeColors, eeprom, themeArg, loadCall>>
histVars == <<lastOp, repeated, pre>>
vars == <<currentMode, timeVars, is24Hour, needClockRefresh, tft, appleVars,
          analogVars, weatherVars, digitalVars, gifVars, bufferVars, memoryVars, themeVars,
          ticked, histVars>>

\* A faulty hour step: the 24-hour step in both modes.
hourDegreesOfDay == 360 \div 24

hourDegrees == IF is24Hour THEN 15 ELSE 30

\* displayHours of the hours ring.
RingDisplayHoursRaw(h) == IF is24Hour THEN h ELSE h % 12

\* A faulty display value: the hour of the day, not remapped to 12 hours.
RingDisplayHoursUnmapped(h) == h

RingDisplayHours(h) ==
  IF ~is24Hour /\ RingDisplayHoursRaw(h) = 0 THEN 12 ELSE RingDisplayHoursRaw(h)

(***************************************************************************)
(* The display.                                                            *)
(***************************************************************************)

\* The angles, clockwise from 12 o'clock, at which the arcs of a ring begin or
\* end: where the sampled time values end (the hours in 24-hour and in
\* 12-hour mode), and 3 o'clock, where drawRing splits an arc that wraps.
Marks ==
  [radius \in RingRadii |->
     {0, 90} \cup
     (CASE radius = HOURS_RING_RADIUS ->
             {h * 15 : h \in HourVals} \cup {(h % 12) * 30 : h \in HourVals}
        [] radius = MINUTES_RING_RADIUS -> {m * minuteDegrees : m \in MinuteVals}
        [] radius = SECONDS_RING_RADIUS -> {s * secondDegrees : s \in SecondVals})]

\* A ring is followed as a row of sectors, one from each mark to the next.
Sectors(radius) == Marks[radius]

SectorEnds ==
  [radius \in RingRadii |->
     [k \in Marks[radius] |->
        CHOOSE m \in Marks[radius] \cup {360} :
          m > k /\ \A n \in Marks[radius] : n > k => m <= n]]

SectorStart(radius, k) == -90 + k

SectorEnd(radius, k) == -90 + SectorEnds[radius][k]

\* Whether the arc [startAngle, endAngle] covers sector k (angles modulo 360).
Covers(radius, k, startAngle, endAngle) ==
  \E j \in {0, 1} :
    /\ startAngle <= SectorStart(radius, k) + 360 * j
    /\ SectorEnd(radius, k) + 360 * j <= endAngle

\* Whether sector k begins or ends at the angle: a cap drawn there overlaps it.
Touches(radius, k, angle) ==
  \E j \in {-1, 0, 1} :
    \/ angle = SectorStart(radius, k) + 360 * j
    \/ angle = SectorEnd(radius, k) + 360 * j

BlankRow(radius, color) == [k \in Sectors(radius) |-> color]

\* The colour that fills sector k of a ring.
Base(t, radius, k) == t.rings[radius][k]

\* The colours of the end caps that overlap sector k of a ring.
Caps(t, radius, k) == {c[2] : c \in {d \in t.caps[radius] : d[1] = k}}

DrawCall(fn, radius, thickness, startAngle, endAngle, color) ==
  <<fn, radius, thickness, startAngle, endAngle, color>>

\* The body of drawRing for endAngle >= startAngle: the triangle fan fills the
\* covered sectors; when the sweep is below 360 a filled circle is drawn at
\* each end, which overlaps the sectors on both sides of that end.
FillArc(t, radius, thickness, startAngle, endAngle, color) ==
  LET capped == {k \in Sectors(radius) :
                   /\ (endAngle - startAngle) < 360
                   /\ ~Covers(radius, k, startAngle, endAngle)
                   /\ \/ Touches(radius, k, startAngle)
                      \/ Touches(radius, k, endAngle)
                   /\ Base(t, radius, k) # color}
  IN [t EXCEPT
        !.rings[radius] =
           [k \in DOMAIN @ |->
              IF Covers(radius, k, startAngle, endAngle) THEN color ELSE @[k]],
        !.caps[radius] =
           {c \in @ : /\ ~Covers(radius, c[1], startAngle, endAngle)
                      /\ c[1] \notin capped}
             \cup {<<k, color>> : k \in capped},
        !.log = Append(@, DrawCall("drawRing", radius, thickness,
                                   startAngle, endAngle, color))]

\* A faulty drawRing that lacks the split of an arc that wraps.
drawRingUnsplit(t, radius, thickness, startAngle, endAngle, color) ==
  FillArc(t, radius, thickness, startAngle, endAngle, color)

RECURSIVE drawRing(_, _, _, _, _, _)
drawRing(t, radius, thickness, startAngle, endAngle, color) ==
  IF endAngle < startAngle
  THEN drawRing(drawRing(t, radius, thickness, startAngle, 360, color),
                radius, thickness, 0, endAngle, color)
  ELSE FillArc(t, radius, thickness, startAngle, endAngle, color)

NoDigits == [hh |-> -1, mm |-> -1, ss |-> -1, ampm |-> ""]

NoClock == [hh |-> -1, mm |-> -1, ss |-> -1, colon |-> FALSE, ampm |-> ""]

fillScreen(t, color) ==
  [t EXCEPT !.rings = [r \in DOMAIN @ |-> BlankRow(r, color)],
            !.caps = [r \in DOMAIN @ |-> {}],
            !.digits = NoDigits,
            !.segs = {},
            !.hands = {},
            !.clock = NoClock,
            !.log = Append(@, DrawCall("fillScreen", 0, 0, 0, 0, color))]

\* A draw call that the model does not follow onto the screen.
Logged(t, fn, color) == [t EXCEPT !.log = Append(@, DrawCall(fn, 0, 0, 0, 0, color))]

ClearLog(t) == [t EXCEPT !.log = <<>>]

\* The driver's redraw of the mode's background image, which covers the screen.
drawBackground(t) ==
  [fillScreen(t, TFT_BLACK) EXCEPT
     !.log = Append(t.log, DrawCall("drawBackground", 0, 0, 0, 0, NoColor))]

(***************************************************************************)
(* Apple Rings mode (apple_rings_theme.h).                                 *)
(***************************************************************************)

\* displayHours of the centre digits.
DigitsDisplayHours(h) ==
  IF is24Hour THEN h ELSE IF h > 12 THEN h - 12 ELSE IF h = 0 THEN 12 ELSE h

drawTimeDigits(t) ==
  [t EXCEPT !.digits = [hh |-> DigitsDisplayHours(hours), mm |-> minutes,
                        ss |-> seconds,
                        ampm |-> IF is24Hour THEN ""
                                 ELSE IF hours >= 12 THEN "PM" ELSE "AM"],
            !.log = Append(@, DrawCall("drawTimeDigits", 0, 0, 0, 0, TFT_WHITE))]

updateTimeDigits(t) == drawTimeDigits(t)

\* The drawing of forceCorrectRingDisplay.
ForceHoursRing(t) ==
  IF RingDisplayHours(hours) > 0
  THEN drawRing(t, HOURS_RING_RADIUS, RING_THICKNESS, -90,
                -90 + RingDisplayHours(hours) * hourDegrees, APPLE_BLUE)
  ELSE t

ForceMinutesRing(t) ==
  IF minutes > 0
  THEN drawRing(t, MINUTES_RING_RADIUS, RING_THICKNESS, -90,
                -90 + minutes * 6, APPLE_GREEN)
  ELSE t

ForceSecondsRing(t) ==
  IF seconds > 0
  THEN drawRing(t, SECONDS_RING_RADIUS, RING_THICKNESS, -90,
                -90 + seconds * 6, APPLE_RED)
  ELSE t

ForceBackground(t) ==
  drawRing(
    drawRing(
      drawRing(fillScreen(t, APPLE_RINGS_BG),
               HOURS_RING_RADIUS, RING_THICKNESS, 0, 360, APPLE_BLUE_BG),
      MINUTES_RING_RADIUS, RING_THICKNESS, 0, 360, APPLE_GREEN_BG),
    SECONDS_RING_RADIUS, RING_THICKNESS, 0, 360, APPLE_RED_BG)

ForceDraw(t) ==
  drawTimeDigits(ForceSecondsRing(ForceMinutesRing(ForceHoursRing(ForceBackground(t)))))

\* A faulty full redraw: it forgets to record that it was done.
forceCorrectRingDisplayUnrecorded ==
  /\ tft' = ForceDraw(ClearLog(tft))
  /\ fullRedrawDone' = fullRedrawDone
  /\ prevRingHours' = hours
  /\ prevRingMinutes' = minutes
  /\ prevRingSeconds' = seconds

forceCorrectRingDisplay ==
  /\ tft' = ForceDraw(ClearLog(tft))
  /\ fullRedrawDone' = TRUE
  /\ prevRingHours' = hours
  /\ prevRingMinutes' = minutes
  /\ prevRingSeconds' = seconds

\* The hours ring of updateAppleRingsTime.
UpdateHoursRing(t) ==
  IF hours # prevRingHours
  THEN IF hours = 0 /\ (prevRingHours = 23 \/ prevRingHours = 11)
       THEN drawRing(
              drawRing(t, HOURS_RING_RADIUS, RING_THICKNESS + 2, 0, 360, APPLE_RINGS_BG),
              HOURS_RING_RADIUS, RING_THICKNESS, 0, 360, APPLE_BLUE_BG)
       ELSE LET t1 == IF prevRingHours = -1
                      THEN drawRing(t, HOURS_RING_RADIUS, RING_THICKNESS + 2,
                                    0, 360, APPLE_RINGS_BG)
                      ELSE t
                t2 == drawRing(t1, HOURS_RING_RADIUS, RING_THICKNESS,
                               0, 360, APPLE_BLUE_BG)
                endAngle == -90 + RingDisplayHours(hours) * hourDegrees
            IN IF RingDisplayHours(hours) > 0
               THEN drawRing(t2, HOURS_RING_RADIUS, RING_THICKNESS,
                             -90, endAngle, APPLE_BLUE)
               ELSE IF ~is24Hour /\ RingDisplayHours(hours) = 12
                    THEN drawRing(t2, HOURS_RING_RADIUS, RING_THICKNESS,
                                  -90, 270, APPLE_BLUE)
                    ELSE t2
  ELSE t

\* A faulty minutes ring: a backward jump is drawn like forward progress,
\* without the track.
UpdateMinutesRingNoTrack(t) ==
  IF minutes # prevRingMinutes
  THEN IF (minutes = 0 /\ prevRingMinutes > 0) \/ prevRingMinutes = -1
       THEN drawRing(
              drawRing(t, MINUTES_RING_RADIUS, RING_THICKNESS + 2,
                       0, 360, APPLE_RINGS_BG),
              MINUTES_RING_RADIUS, RING_THICKNESS, 0, 360, APPLE_GREEN_BG)
       ELSE drawRing(t, MINUTES_RING_RADIUS, RING_THICKNESS,
                     -90, -90 + minutes * minuteDegrees, APPLE_GREEN)
  ELSE t

\* The minutes ring of updateAppleRingsTime.
UpdateMinutesRing(t) ==
  IF minutes # prevRingMinutes
  THEN LET minuteReset == (minutes = 0 /\ prevRingMinutes > 0) \/ prevRingMinutes = -1
       IN IF minuteReset
          THEN drawRing(
                 drawRing(t, MINUTES_RING_RADIUS, RING_THICKNESS + 2,
                          0, 360, APPLE_RINGS_BG),
                 MINUTES_RING_RADIUS, RING_THICKNESS, 0, 360, APPLE_GREEN_BG)
          ELSE IF minutes < prevRingMinutes
               THEN LET t1 == drawRing(t, MINUTES_RING_RADIUS, RING_THICKNESS,
                                       0, 360, APPLE_GREEN_BG)
                    IN IF minutes > 0
                       THEN drawRing(t1, MINUTES_RING_RADIUS, RING_THICKNESS,
                                     -90, -90 + minutes * minuteDegrees, APPLE_GREEN)
                       ELSE t1
               ELSE drawRing(t, MINUTES_RING_RADIUS, RING_THICKNESS,
                             -90, -90 + minutes * minuteDegrees, APPLE_GREEN)
  ELSE t

\* A faulty seconds ring: at the rollover to 0 it paints the full circle.
UpdateSecondsRingFullAtZero(t) ==
  IF seconds # prevRingSeconds
  THEN IF seconds = 0 /\ prevRingSeconds > 0
       THEN drawRing(
              drawRing(t, SECONDS_RING_RADIUS, RING_THICKNESS, 0, 360, APPLE_RED_BG),
              SECONDS_RING_RADIUS, RING_THICKNESS, -90, 270, APPLE_RED)
       ELSE LET t1 == IF seconds < prevRingSeconds \/ prevRingSeconds = -1
                      THEN drawRing(t, SECONDS_RING_RADIUS, RING_THICKNESS,
                                    0, 360, APPLE_RED_BG)
                      ELSE t
            IN IF seconds > 0
               THEN drawRing(t1, SECONDS_RING_RADIUS, RING_THICKNESS,
                             -90, -90 + seconds * secondDegrees, APPLE_RED)
               ELSE t1
  ELSE t

\* A faulty seconds ring: at the rollover to 0 it clears the minutes ring with
\* its own.
UpdateSecondsRingClearsMinutes(t) ==
  IF seconds # prevRingSeconds
  THEN IF seconds = 0 /\ prevRingSeconds > 0
       THEN drawRing(
              drawRing(t, MINUTES_RING_RADIUS, RING_THICKNESS + 2,
                       0, 360, APPLE_RINGS_BG),
              SECONDS_RING_RADIUS, RING_THICKNESS, 0, 360, APPLE_RED_BG)
       ELSE LET t1 == IF seconds < prevRingSeconds \/ prevRingSeconds = -1
                      THEN drawRing(t, SECONDS_RING_RADIUS, RING_THICKNESS,
                                    0, 360, APPLE_RED_BG)
                      ELSE t
            IN IF seconds > 0
               THEN drawRing(t1, SECONDS_RING_RADIUS, RING_THICKNESS,
                             -90, -90 + seconds * secondDegrees, APPLE_RED)
               ELSE t1
  ELSE t

\* The seconds ring of updateAppleRingsTime.
UpdateSecondsRing(t) ==
  IF seconds # prevRingSeconds
  THEN IF seconds = 0 /\ prevRingSeconds > 0
       THEN drawRing(
              drawRing(t, SECONDS_RING_RADIUS, RING_THICKNESS + 2,
                       0, 360, APPLE_RINGS_BG),
              SECONDS_RING_RADIUS, RING_THICKNESS, 0, 360, APPLE_RED_BG)
       ELSE IF prevRingSeconds = -1
            THEN LET t1 == drawRing(t, SECONDS_RING_RADIUS, RING_THICKNESS,
                                    0, 360, APPLE_RED_BG)
                 IN IF seconds > 0
                    THEN drawRing(t1, SECONDS_RING_RADIUS, RING_THICKNESS,
                                  -90, -90 + seconds * secondDegrees, APPLE_RED)
                    ELSE t1
            ELSE LET t1 == IF seconds < prevRingSeconds
                           THEN drawRing(t, SECONDS_RING_RADIUS, RING_THICKNESS,
                                         0, 360, APPLE_RED_BG)
                           ELSE t
                 IN IF seconds > 0
                    THEN drawRing(t1, SECONDS_RING_RADIUS, RING_THICKNESS,
                                  -90, -90 + seconds * secondDegrees, APPLE_RED)
                    ELSE t1
  ELSE t

UpdateDigits(t) ==
  IF hours # prevRingHours \/ minutes # prevRingMinutes \/ seconds # prevRingSeconds
  THEN updateTimeDigits(t)
  ELSE t

(***************************************************************************)
(* Arc analog mode (arc_analog.h).  Angles are kept as integers: the       *)
(* minute hand's angle in tenths of a degree, the hour hand's in halves.   *)
(***************************************************************************)

\* minuteAngle = minutes * 6 + seconds * 0.1, in tenths of a degree.
MinuteAngle == minutes * 60 + seconds

\* hourAngle = hours * 30 + minutes * 0.5, in half degrees.
HourAngle == hours * 60 + minutes

\* The tip of a hand: sin and cos of the angle, so the angle modulo a turn.
MinuteTip(angle) == angle % 3600
HourTip(angle) == angle % 720

drawClockFace(t) == Logged(t, "drawClockFace", HOUR_MARKER_COLOR)

\* drawSecondsArc of the segment that starts at 270 + i * 6 degrees.
drawSecondsArc(t, i, color) ==
  [t EXCEPT !.segs = IF color = SECOND_RING_COLOR THEN @ \cup {i} ELSE @ \ {i},
            !.log = Append(@, DrawCall("drawSecondsArc", 120, 4,
                                       270 + i * 6, 270 + i * 6 + 6, color))]

\* for (i = from; i < to; i++) drawSecondsArc(...): the segments it draws and
\* its calls, in order.
SecondsArcs(t, from, to, color) ==
  [t EXCEPT !.segs = IF color = SECOND_RING_COLOR THEN @ \cup (from .. (to - 1))
                                                  ELSE @ \ (from .. (to - 1)),
            !.log = @ \o [n \in 1 .. (IF to > from THEN to - from ELSE 0) |->
                            DrawCall("drawSecondsArc", 120, 4, 270 + (from + n - 1) * 6,
                                     270 + (from + n - 1) * 6 + 6, color)]]

DrawHand(t, hand, tip, color) ==
  [t EXCEPT !.hands = @ \cup {<<hand, tip>>},
            !.log = Append(@, DrawCall("drawLine", 0, 0, tip, 0, color))]

\* The 5 x 5 black lines drawn over a hand whose tip was saved.
EraseHand(t, hand, tip) ==
  IF tip # -1
  THEN [t EXCEPT !.hands = @ \ {<<hand, tip>>},
                 !.log = Append(@, DrawCall("drawLine", 0, 0, tip, 0, TFT_BLACK))]
  ELSE t

CenterDot(t) == Logged(t, "fillCircle", CENTER_DOT_COLOR)

\* The local state of one run of an analog routine.
AnalogState(t) ==
  [tft |-> t, prevSecond |-> prevSecond,
   prevMinuteXY |-> prevMinuteXY, prevMinuteAngle |-> prevMinuteAngle,
   prevHourXY |-> prevHourXY, prevHourAngle |-> prevHourAngle,
   needClockRefresh |-> needClockRefresh, returned |-> FALSE]

AnalogDrawHourHand(a) ==
  [a EXCEPT !.tft = DrawHand(@, "hour", HourTip(HourAngle), HOUR_HAND_COLOR),
            !.prevHourXY = HourTip(HourAngle),
            !.prevHourAngle = HourAngle]

AnalogDrawMinuteHand(a) ==
  [a EXCEPT !.tft = DrawHand(@, "minute", MinuteTip(MinuteAngle), MINUTE_HAND_COLOR),
            !.prevMinuteXY = MinuteTip(MinuteAngle),
            !.prevMinuteAngle = MinuteAngle]

AnalogCommit(a) ==
  /\ tft' = a.tft
  /\ prevSecond' = a.prevSecond
  /\ prevMinuteXY' = a.prevMinuteXY
  /\ prevMinuteAngle' = a.prevMinuteAngle
  /\ prevHourXY' = a.prevHourXY
  /\ prevHourAngle' = a.prevHourAngle
  /\ needClockRefresh' = a.needClockRefresh

DrawAnalogClock(a0) ==
  LET a1 == [a0 EXCEPT !.tft = drawClockFace(@)]
      a2 == AnalogDrawMinuteHand(AnalogDrawHourHand(a1))
      a3 == [a2 EXCEPT !.tft = SecondsArcs(@, 0, seconds, SECOND_RING_COLOR),
                       !.prevSecond = seconds]
  IN [a3 EXCEPT !.tft = CenterDot(@)]

\* The periodic full refresh check at the top of updateAnalogClock.
AnalogPeriodicCheck(a) ==
  IF seconds = 0 /\ minutes % 5 = 0
  THEN [a EXCEPT !.needClockRefresh = TRUE, !.returned = TRUE]
  ELSE a

\* The minute boundary of updateAnalogClock: clear the ring, redraw the hands.
AnalogMinuteBoundary(a) ==
  LET a1 == [a EXCEPT !.tft = SecondsArcs(@, 0, 60, TFT_BLACK)]
      a2 == [a1 EXCEPT !.tft = EraseHand(@, "minute", a1.prevMinuteXY)]
      a3 == [a2 EXCEPT !.tft = drawClockFace(EraseHand(@, "hour", a2.prevHourXY))]
      a4 == AnalogDrawMinuteHand(AnalogDrawHourHand(a3))
  IN [a4 EXCEPT !.tft = CenterDot(@)]

\* The seconds ring of updateAnalogClock.
AnalogSecondsRing(a) ==
  IF a.returned \/ seconds = a.prevSecond THEN a
  ELSE IF seconds = 0 /\ minutes % 15 = 0
       THEN [a EXCEPT !.needClockRefresh = TRUE, !.prevSecond = seconds,
                      !.returned = TRUE]
       ELSE LET a1 == IF seconds = 0
                      THEN AnalogMinuteBoundary(a)
                      ELSE [a EXCEPT !.tft = drawSecondsArc(@, seconds - 1,
                                                            SECOND_RING_COLOR)]
            IN [a1 EXCEPT !.prevSecond = seconds]

AnalogMinuteHand(a) ==
  IF a.returned \/ MinuteAngle = a.prevMinuteAngle THEN a
  ELSE AnalogDrawMinuteHand([a EXCEPT !.tft = EraseHand(@, "minute", a.prevMinuteXY)])

AnalogHourHand(a) ==
  IF a.returned \/ HourAngle = a.prevHourAngle THEN a
  ELSE AnalogDrawHourHand([a EXCEPT !.tft = EraseHand(@, "hour", a.prevHourXY)])

AnalogFinish(a) == IF a.returned THEN a ELSE [a EXCEPT !.tft = CenterDot(@)]

UpdateAnalogClock(a) ==
  AnalogFinish(AnalogHourHand(AnalogMinuteHand(AnalogSecondsRing(AnalogPeriodicCheck(a)))))

(***************************************************************************)
(* Weather mode (weather_theme.h).                                         *)
(***************************************************************************)

\* displayHours of the digital, GIF digital and weather time text.
TextDisplayHours(h) ==
  IF is24Hour THEN h ELSE IF h > 12 THEN h - 12 ELSE IF h = 0 THEN 12 ELSE h

\* One segment of the weather seconds ring: the line from second i to i + 1
\* and the inner lines that thicken it.
WeatherSegment(t, i) ==
  [t EXCEPT !.segs = @ \cup {i},
            !.log = Append(@, DrawCall("drawLine", 115, 4, i * 6 - 90,
                                       (i + 1) * 6 - 90, getCurrentSecondRingColor))]

\* for (i = from; i < to; i++) of drawWeatherSecondsIndicator: the segments
\* it draws and its calls, in order.
WeatherSegments(t, from, to) ==
  [t EXCEPT !.segs = @ \cup (from .. (to - 1)),
            !.log = @ \o [n \in 1 .. (IF to > from THEN to - from ELSE 0) |->
                            DrawCall("drawLine", 115, 4, (from + n - 1) * 6 - 90,
                                     (from + n) * 6 - 90, getCurrentSecondRingColor)]]

drawWeatherSecondsIndicator(t) == WeatherSegments(t, 0, seconds)

WeatherTimeText(t) ==
  [t EXCEPT !.clock = [hh |-> TextDisplayHours(hours), mm |-> minutes, ss |-> -1,
                       colon |-> TRUE,
                       ampm |-> IF hours >= 12 THEN "PM" ELSE "AM"],
            !.log = Append(@, DrawCall("println", 0, 0, 0, 0, WEATHER_TEXT))]

DrawWeatherInterface(t) ==
  drawWeatherSecondsIndicator(
    WeatherTimeText(
      Logged(Logged(fillScreen(t, WEATHER_BG), "dayAndDate", WEATHER_TEXT),
             "weatherInfo", WEATHER_TEXT)))

\* The local state of one run of a weather routine.
WeatherState(t) ==
  [tft |-> t, prevWeatherHours |-> prevWeatherHours,
   prevWeatherMinutes |-> prevWeatherMinutes, lastSecond |-> lastSecond,
   needClockRefresh |-> needClockRefresh]

updateWeatherSecondsIndicator(w) ==
  IF seconds = w.lastSecond THEN w
  ELSE IF seconds = 0
       THEN [w EXCEPT !.needClockRefresh = TRUE, !.lastSecond = seconds]
       ELSE [w EXCEPT !.tft = WeatherSegment(@, seconds - 1),
                      !.lastSecond = seconds]

WeatherTimeArea(w) ==
  IF hours # w.prevWeatherHours \/ minutes # w.prevWeatherMinutes
  THEN [w EXCEPT !.tft = WeatherTimeText(Logged(@, "fillRect", WEATHER_BG)),
                 !.prevWeatherHours = hours,
                 !.prevWeatherMinutes = minutes]
  ELSE w

UpdateWeatherTime(w) == updateWeatherSecondsIndicator(WeatherTimeArea(w))

(***************************************************************************)
(* Arc digital and GIF digital modes (arc_digital.h, gif_digital.h).  The  *)
(* two update routines are the same code over two sets of trackers.        *)
(***************************************************************************)

\* The text colour of the digital modes.
TextColor == IF currentMode = MODE_GIF_DIGITAL THEN CYAN_COLOR ELSE IRONMAN_CYAN

\* The local state of one run of a digital routine.
DigitalState(t, ph, pm, ps, pc, sc) ==
  [tft |-> t, prevHours |-> ph, prevMinutes |-> pm, prevSeconds |-> ps,
   prevColonState |-> pc, showColon |-> sc]

DigitalNeedsUpdate(d) ==
  \/ hours # d.prevHours
  \/ minutes # d.prevMinutes
  \/ seconds # d.prevSeconds
  \/ d.showColon # d.prevColonState

DigitalSeconds(d) ==
  IF seconds # d.prevSeconds
  THEN [d EXCEPT !.tft.clock.ss = seconds,
                 !.tft.log = Append(@, DrawCall("print", 0, 0, seconds, 0, TextColor))]
  ELSE d

\* A faulty hours field: the hour of the day is printed in 12-hour mode too.
DigitalHoursOfDay(d) ==
  IF hours # d.prevHours \/ (minutes # d.prevMinutes /\ hours < 10)
  THEN [d EXCEPT !.tft.clock.hh = hours,
                 !.tft.log = Append(@, DrawCall("print", 0, 0, hours, 0, TextColor))]
  ELSE d

DigitalHours(d) ==
  IF hours # d.prevHours \/ (minutes # d.prevMinutes /\ hours < 10)
  THEN [d EXCEPT !.tft.clock.hh = TextDisplayHours(hours),
                 !.tft.log = Append(@, DrawCall("print", 0, 0,
                                                TextDisplayHours(hours), 0, TextColor))]
  ELSE d

DigitalColon(d) ==
  IF d.showColon # d.prevColonState
  THEN [d EXCEPT !.tft.clock.colon = d.showColon,
                 !.tft.log = Append(@, IF d.showColon
                                       THEN DrawCall("print", 0, 0, 0, 0, TextColor)
                                       ELSE DrawCall("fillRect", 0, 0, 0, 0,
                                                     TEXT_BACKGROUND_COLOR))]
  ELSE d

DigitalMinutes(d) ==
  IF minutes # d.prevMinutes
  THEN [d EXCEPT !.tft.clock.mm = minutes,
                 !.tft.log = Append(@, DrawCall("print", 0, 0, minutes, 0, TextColor))]
  ELSE d

\* The AM/PM indicator; with WiFi the hour is read from the clock that hours
\* was set from in the same tick.
DigitalAmPm(d) ==
  IF ~is24Hour /\ (hours # d.prevHours \/ d.prevHours = -1)
  THEN [d EXCEPT !.tft.clock.ampm = IF hours >= 12 THEN "PM" ELSE "AM",
                 !.tft.log = Append(@, DrawCall("println", 0, 0, 0, 0, TextColor))]
  ELSE d

\* A faulty save: it forgets the seconds.
DigitalSaveForgetsSeconds(d) ==
  [d EXCEPT !.prevHours = hours, !.prevMinutes = minutes,
            !.prevColonState = d.showColon]

DigitalSave(d) ==
  [d EXCEPT !.prevHours = hours, !.prevMinutes = minutes,
            !.prevSeconds = seconds, !.prevColonState = d.showColon]

\* updateDigitalTime and updateGifDigitalTime.
UpdateDigitalTime(d) ==
  IF DigitalNeedsUpdate(d)
  THEN DigitalSave(DigitalAmPm(DigitalMinutes(DigitalColon(DigitalHours(
         DigitalSeconds([d EXCEPT !.tft = Logged(@, "setTextColor", TextColor)]))))))
  ELSE d

\* updateArcDigitalColon and updateGifDigitalColon.
UpdateDigitalColon(d) ==
  LET oldColonState == d.showColon
      d1 == [d EXCEPT !.showColon = ~oldColonState]
  IN IF oldColonState # d1.showColon
     THEN [d1 EXCEPT !.tft.clock.colon = d1.showColon,
                     !.tft.log = Append(@, IF d1.showColon
                                           THEN DrawCall("print", 0, 0, 0, 0, TextColor)
                                           ELSE DrawCall("fillRect", 0, 0, 0, 0,
                                                         TEXT_BACKGROUND_COLOR)),
                     !.prevColonState = d1.showColon]
     ELSE d1

(***************************************************************************)
(* The GIF backgrounds (gif_digital.h, pipboy.h).                          *)
(***************************************************************************)

Addresses == 1 .. MaxBuffers

\* What a call finds of the file it is given: whether its name contains
\* vaultboy.gif, whether it exists and opens, its size, and whether it can be
\* read in full, decoded, and its first frame played.
GifFiles ==
  [vaultboy : BOOLEAN, exists : BOOLEAN, opens : BOOLEAN, size : 0 .. GifFileSize,
   reads : BOOLEAN, decodes : BOOLEAN, plays : BOOLEAN]

\* The local state of one run of a GIF routine.
GifState(t, buffer, size, clock) ==
  [tft |-> t, buffer |-> buffer, size |-> size, clock |-> clock, heap |-> heap,
   freedTwice |-> freedTwice, played |-> {}, ok |-> FALSE]

\* malloc(size): p is NULL or an address that is not allocated.
GifMalloc(g, p) ==
  [g EXCEPT !.buffer = p, !.heap = IF p # NULL THEN @ \cup {p} ELSE @]

\* free(buffer); buffer = NULL; size = 0.
GifRelease(g) ==
  [g EXCEPT !.heap = @ \ {g.buffer},
            !.freedTwice = @ \/ g.buffer \notin g.heap,
            !.buffer = NULL,
            !.size = 0]

\* AnimatedGIF::open on the buffer, and close.
GifOpen(g) == [g EXCEPT !.clock = g.buffer]

GifClose(g) == [g EXCEPT !.clock = NULL]

\* AnimatedGIF::playFrame: the decoder reads the buffer it was opened on.
GifPlayFrame(g) ==
  [g EXCEPT !.played = @ \cup {IF g.clock \in g.heap THEN "live" ELSE "dangling"},
            !.tft = Logged(@, "playFrame", NoColor)]

\* An unfaithful cleanup: it forgets the size.
GifCleanupKeepsSize(g) ==
  IF g.buffer # NULL
  THEN [GifClose(g) EXCEPT !.heap = @ \ {g.buffer},
                           !.freedTwice = @ \/ g.buffer \notin g.heap,
                           !.buffer = NULL]
  ELSE g

\* if (buffer != NULL) { close(); free(buffer); buffer = NULL; size = 0; }
GifCleanup(g) == IF g.buffer # NULL THEN GifRelease(GifClose(g)) ELSE g

\* From the open of the file to the open of the decoder, as both loaders do.
GifReadFile(g, f, p) ==
  IF ~f.opens THEN g
  ELSE LET g1 == [g EXCEPT !.size = f.size]
       IN IF g1.size = 0 THEN g1
          ELSE LET g2 == GifMalloc(g1, p)
               IN IF g2.buffer = NULL THEN [g2 EXCEPT !.size = 0]
                  ELSE IF ~f.reads THEN GifRelease(g2)
                  ELSE IF ~f.decodes THEN GifRelease(g2)
                  ELSE [GifOpen(g2) EXCEPT !.ok = TRUE]

DisplayGIFDigitalBackground(g, f, p) ==
  IF f.vaultboy THEN g
  ELSE IF ~f.exists THEN g
  ELSE LET g1 == GifReadFile(GifCleanup(g), f, p)
       IN IF ~g1.ok THEN g1
          ELSE LET g2 == GifPlayFrame(g1)
               IN IF ~f.plays
                  THEN [GifRelease(GifClose(g2)) EXCEPT !.ok = FALSE]
                  ELSE g2

LoadAndInitGIF(g, f, p) ==
  LET g1 == GifCleanup(g)
  IN IF ~f.exists THEN g1 ELSE GifReadFile(g1, f, p)

\* if (buffer != NULL && size > 0) { if (!playFrame()) reset(); }
UpdateGif(g, more) ==
  IF g.buffer # NULL /\ g.size > 0
  THEN LET g1 == GifPlayFrame(g)
       IN IF ~more THEN [g1 EXCEPT !.tft = Logged(@, "reset", NoColor)] ELSE g1
  ELSE g

(***************************************************************************)
(* The colour memory (theme_color_memory.h).                               *)
(***************************************************************************)

MAX_THEME_MAPPINGS == MaxMappings

MAX_FILENAME_LENGTH == 32

COLOR_TOTAL == ColorCount

\* A file name of MAX_FILENAME_LENGTH characters.
LongName == "0123456789012345678901234567.jpg"

\* The file names and the colour indices that the calls are given.
FileNames == {"", "a.jpg", "b.jpg", "a.jpg:x", LongName}

ColorArgs == -1 .. COLOR_TOTAL

strlen(str) == Len(str)

\* strncpy(dst, src, MAX_FILENAME_LENGTH - 1) and the terminating NUL.
strncpy(src) ==
  IF strlen(src) > MAX_FILENAME_LENGTH - 1
  THEN SubSeq(src, 1, MAX_FILENAME_LENGTH - 1)
  ELSE src

\* The table as the zero-initialised global array.
NoMappings ==
  [i \in 0 .. (MAX_THEME_MAPPINGS - 1) |->
     [filename |-> "", colorIndex |-> 0, isValid |-> FALSE]]

\* The mappings file does not exist.
NoFile == [exists |-> FALSE, lines |-> <<>>]

NoRequest == [filename |-> "", colorIndex |-> -1]

NotAsked == [filename |-> "", colorIndex |-> -1, hadRoom |-> FALSE]

\* The local state of one run of a colour memory routine.
\* wrote: whether the run has rewritten the mappings file; failed: whether
\* the file has failed to open in it.
ColorMemory ==
  [colorMappings |-> colorMappings, numColorMappings |-> numColorMappings,
   colorMapFile |-> colorMapFile, wrote |-> FALSE, failed |-> FALSE]

\* What SPIFFS.open of the mappings file can come to.
OpenOutcomes == IF openFailures < MaxOpenFailures THEN BOOLEAN ELSE {TRUE}

IsValidMapping(e) == e.isValid

\* The characters of the decimal digits.
DecimalDigits == <<"0", "1", "2", "3", "4", "5", "6", "7", "8", "9">>

\* Print::print(int): the decimal text of a number.
RECURSIVE printInt(_)
printInt(n) ==
  IF n < 0 THEN "-" \o printInt(0 - n)
  ELSE IF n < 10 THEN DecimalDigits[n + 1]
  ELSE printInt(n \div 10) \o DecimalDigits[(n % 10) + 1]

charAt(str, i) == SubSeq(str, i + 1, i + 1)

\* String::substring(from, to) and String::substring(from).
substring(str, from, to) == SubSeq(str, from + 1, to)

\* String::indexOf: the position of the first occurrence of the text c, or -1.
indexOf(str, c) ==
  LET found == {i \in 0 .. (Len(str) - Len(c)) : substring(str, i, i + Len(c)) = c}
  IN IF found = {} THEN -1
     ELSE CHOOSE i \in found : \A j \in found : i <= j

\* String::trim: white space is removed at both ends.
RECURSIVE trim(_)
trim(str) ==
  IF Len(str) = 0 THEN str
  ELSE IF charAt(str, 0) = " " THEN trim(substring(str, 1, Len(str)))
  ELSE IF charAt(str, Len(str) - 1) = " " THEN trim(substring(str, 0, Len(str) - 1))
  ELSE str

DigitValue(c) == (CHOOSE d \in 1 .. 10 : DecimalDigits[d] = c) - 1

IsDigit(c) == \E d \in 1 .. 10 : DecimalDigits[d] = c

\* The number that the digits from position i on spell, after acc.
RECURSIVE LeadingDigits(_, _, _)
LeadingDigits(str, i, acc) ==
  IF i < Len(str) /\ IsDigit(charAt(str, i))
  THEN LeadingDigits(str, i + 1, acc * 10 + DigitValue(charAt(str, i)))
  ELSE acc

\* String::toInt (atol): an optional sign and the digits that follow it; 0
\* when there are none.
toInt(str) ==
  IF Len(str) > 0 /\ charAt(str, 0) = "-" THEN 0 - LeadingDigits(str, 1, 0)
  ELSE LeadingDigits(str, 0, 0)

\* The line that saveThemeColorMappings writes for a mapping.
MappingLine(e) == e.filename \o ":" \o printInt(e.colorIndex)

\* saveThemeColorMappings: the file is rewritten with the valid mappings, one
\* line each, unless it cannot be opened.
saveThemeColorMappings(cm, opens) ==
  IF ~opens THEN [cm EXCEPT !.failed = TRUE]
  ELSE [cm EXCEPT !.colorMapFile =
          [exists |-> TRUE,
           lines |-> LET valid == SelectSeq([i \in 1 .. cm.numColorMappings |->
                                               cm.colorMappings[i - 1]], IsValidMapping)
                     IN [i \in 1 .. Len(valid) |-> MappingLine(valid[i])]],
                  !.wrote = TRUE]

\* findThemeColorMapping: the first valid mapping with the file name, or -1.
findThemeColorMapping(cm, filename) ==
  LET found == {i \in 0 .. (cm.numColorMappings - 1) :
                  /\ cm.colorMappings[i].isValid
                  /\ cm.colorMappings[i].filename = filename}
  IN IF found = {} THEN -1
     ELSE CHOOSE i \in found : \A j \in found : i <= j

\* A faulty check of the request: the colour index is not looked at.
SaveAcceptedAnyColor(filename, colorIndex) ==
  /\ ~(strlen(filename) = 0 \/ strlen(filename) >= MAX_FILENAME_LENGTH)
  /\ currentMode # MODE_WEATHER

\* Whether saveThemeColorPreference goes past its three early returns.
SaveAccepted(filename, colorIndex) ==
  /\ ~(strlen(filename) = 0 \/ strlen(filename) >= MAX_FILENAME_LENGTH)
  /\ ~(colorIndex < 0 \/ colorIndex >= COLOR_TOTAL)
  /\ currentMode # MODE_WEATHER

\* A faulty save: a mapping that exists is left as it is.
SaveThemeColorPreferenceKeepsOld(cm, filename, colorIndex, opens) ==
  IF ~SaveAccepted(filename, colorIndex) THEN cm
  ELSE IF findThemeColorMapping(cm, filename) >= 0 THEN cm
  ELSE IF cm.numColorMappings < MAX_THEME_MAPPINGS
  THEN saveThemeColorMappings(
         [cm EXCEPT !.colorMappings[cm.numColorMappings] =
                      [filename |-> strncpy(filename), colorIndex |-> colorIndex,
                       isValid |-> TRUE],
                    !.numColorMappings = @ + 1], opens)
  ELSE cm

SaveThemeColorPreference(cm, filename, colorIndex, opens) ==
  IF ~SaveAccepted(filename, colorIndex) THEN cm
  ELSE LET index == findThemeColorMapping(cm, filename)
       IN IF index >= 0
          THEN IF cm.colorMappings[index].colorIndex # colorIndex
               THEN saveThemeColorMappings(
                      [cm EXCEPT !.colorMappings[index].colorIndex = colorIndex], opens)
               ELSE cm
          ELSE IF cm.numColorMappings < MAX_THEME_MAPPINGS
               THEN saveThemeColorMappings(
                      [cm EXCEPT !.colorMappings[cm.numColorMappings] =
                                   [filename |-> strncpy(filename),
                                    colorIndex |-> colorIndex, isValid |-> TRUE],
                                 !.numColorMappings = @ + 1], opens)
               ELSE cm

GetThemeColorPreference(cm, filename) ==
  IF strlen(filename) = 0 THEN currentLedColor
  ELSE IF currentMode = MODE_WEATHER THEN currentLedColor
  ELSE LET index == findThemeColorMapping(cm, filename)
       IN IF index >= 0 THEN cm.colorMappings[index].colorIndex
          ELSE currentLedColor

ResetAllColorMappings(cm, opens) ==
  saveThemeColorMappings(
    [cm EXCEPT !.colorMappings = [i \in DOMAIN @ |-> [@[i] EXCEPT !.isValid = FALSE]],
               !.numColorMappings = 0], opens)

\* validateColorMappings: valid mappings with an empty file name or a colour
\* index out of range are made invalid.
MappingIsBad(e) ==
  \/ strlen(e.filename) = 0
  \/ e.colorIndex < 0 \/ e.colorIndex >= COLOR_TOTAL

validateColorMappings(cm) ==
  [cm EXCEPT !.colorMappings =
     [i \in DOMAIN @ |->
        IF i < cm.numColorMappings /\ @[i].isValid /\ MappingIsBad(@[i])
        THEN [@[i] EXCEPT !.isValid = FALSE]
        ELSE @[i]]]

\* loadThemeColorMappings, one line of the file.
LoadLine(cm, text) ==
  LET line == trim(text)
      colonPos == indexOf(line, ":")
      filename == substring(line, 0, colonPos)
      colorIndex == toInt(substring(line, colonPos + 1, Len(line)))
  IN IF Len(line) = 0 THEN cm
     ELSE IF ~(colonPos > 0 /\ colonPos < Len(line) - 1) THEN cm
     ELSE IF ~(colorIndex >= 0 /\ colorIndex < COLOR_TOTAL) THEN cm
     ELSE [cm EXCEPT !.colorMappings[cm.numColorMappings] =
                       [filename |-> strncpy(filename), colorIndex |-> colorIndex,
                        isValid |-> TRUE],
                     !.numColorMappings = @ + 1]

\* loadThemeColorMappings, the loop over the lines from line i on.
RECURSIVE LoadLines(_, _, _)
LoadLines(cm, lines, i) ==
  IF i <= Len(lines) /\ cm.numColorMappings < MAX_THEME_MAPPINGS
  THEN LoadLines(LoadLine(cm, lines[i]), lines, i + 1)
  ELSE cm

\* loadThemeColorMappings: opens says whether the file opens for reading,
\* reopens whether it opens for the rewrite after a failed validation.
LoadThemeColorMappings(cm, opens, reopens) ==
  IF ~cm.colorMapFile.exists THEN cm
  ELSE IF ~opens THEN [cm EXCEPT !.failed = TRUE]
  ELSE LET cleared == [cm EXCEPT !.colorMappings =
                         [i \in DOMAIN @ |-> [@[i] EXCEPT !.isValid = FALSE]],
                                 !.numColorMappings = 0]
           loaded == LoadLines(cleared, cm.colorMapFile.lines, 1)
           validated == validateColorMappings(loaded)
       IN IF validated # loaded THEN saveThemeColorMappings(validated, reopens)
          ELSE validated

(***************************************************************************)
(* Themes and their persistence (theme_manager.h).                         *)
(***************************************************************************)

THEME_IRONMAN == "ironman"
THEME_HULK == "hulk"
THEME_CAPTAIN == "captain"
THEME_THOR == "thor"
THEME_BLACK_WIDOW == "widow"
THEME_SPIDERMAN == "spiderman"

THEME_ID_IRONMAN == 1
THEME_ID_HULK == 2
THEME_ID_CAPTAIN == 3
THEME_ID_THOR == 4
THEME_ID_BLACK_WIDOW == 5
THEME_ID_SPIDERMAN == 6
THEME_ID_PIPBOY == 7

EEPROM_SIZE == 16
THEME_ADDRESS == 0
MODE_ADDRESS == 4
VALID_FLAG_ADDRESS == 8
VALID_SETTINGS_FLAG == 170

\* MODE_TOTAL as theme_manager.h defines it, which is what is in force where
\* loadSavedThemeAndMode is compiled.
MODE_TOTAL == 3

\* LEDColors: r, g, b and the 16-bit colour of the display.
LEDColors(r, g, b, tft_color) == [r |-> r, g |-> g, b |-> b, tft_color |-> tft_color]

IronmanBlue == LEDColors(0, 20, 255, 1311)
HulkGreen == LEDColors(0, 255, 50, 2016)
CaptainBlue == LEDColors(0, 50, 255, 895)
ThorYellow == LEDColors(255, 255, 0, 65504)
WidowRed == LEDColors(255, 0, 0, 63488)

DefaultModeColors == <<IronmanBlue, IronmanBlue, HulkGreen>>

\* The file names that setThemeFromFilename is given.
ThemeFiles ==
  {"/IronMan01.jpg", "hulk02.jpg", "/thor_HULK.jpg", "Captain.JPG", "author.gif",
   "widowspiderman.gif", "/Spiderman03.jpg", "clock.jpg", "/"}

UpperCase == "ABCDEFGHIJKLMNOPQRSTUVWXYZ"
LowerCase == "abcdefghijklmnopqrstuvwxyz"

\* tolower of one character.
lowerChar(c) ==
  IF \E k \in 1 .. 26 : SubSeq(UpperCase, k, k) = c
  THEN LET k == CHOOSE k \in 1 .. 26 : SubSeq(UpperCase, k, k) = c
       IN SubSeq(LowerCase, k, k)
  ELSE c

\* String::toLowerCase.
RECURSIVE toLowerCase(_)
toLowerCase(str) ==
  IF Len(str) = 0 THEN str
  ELSE lowerChar(charAt(str, 0)) \o toLowerCase(substring(str, 1, Len(str)))

\* String::startsWith.
startsWith(str, prefix) ==
  Len(str) >= Len(prefix) /\ substring(str, 0, Len(prefix)) = prefix

\* The EEPROM bytes of an erased flash sector.
ErasedEeprom == [a \in 0 .. (EEPROM_SIZE - 1) |-> 255]

\* The four bytes of a 32-bit int, lowest first, and the int of four bytes.
IntBytes(v) ==
  LET u == IF v >= 0 THEN v ELSE (v + 2147483647) + 1
  IN <<u % 256, (u \div 256) % 256, (u \div 65536) % 256,
       ((u \div 16777216) % 128) + (IF v < 0 THEN 128 ELSE 0)>>

BytesInt(b) ==
  LET u == b[1] + 256 * b[2] + 65536 * b[3] + 16777216 * (b[4] % 128)
  IN IF b[4] >= 128 THEN (u - 2147483647) - 1 ELSE u

\* EEPROM.writeInt, EEPROM.readInt, EEPROM.writeUChar, EEPROM.readUChar.
writeInt(e, address, value) ==
  [a \in DOMAIN e |->
     IF a >= address /\ a < address + 4 THEN IntBytes(value)[(a - address) + 1]
     ELSE e[a]]

readInt(e, address) == BytesInt([k \in 1 .. 4 |-> e[address + k - 1]])

writeUChar(e, address, value) == [e EXCEPT ![address] = value % 256]

readUChar(e, address) == e[address]

\* The local state of one run of a theme routine.
ThemeState ==
  [currentThemeName |-> currentThemeName, currentThemeId |-> currentThemeId,
   modeColors |-> modeColors, eeprom |-> eeprom]

\* The assignments of one branch of setThemeFromFilename; modeColors[0] and
\* modeColors[1] are the entries 1 and 2 of the sequence.
WithTheme(th, name, id, color) ==
  [th EXCEPT !.modeColors[1] = color, !.modeColors[2] = color,
             !.currentThemeName = name, !.currentThemeId = id]

SaveThemeAndMode(th) ==
  LET t == IF currentMode = MODE_PIPBOY
           THEN [th EXCEPT !.currentThemeId = THEME_ID_PIPBOY]
           ELSE th
  IN [t EXCEPT !.eeprom =
        writeUChar(writeInt(writeInt(@, THEME_ADDRESS, t.currentThemeId),
                            MODE_ADDRESS, currentMode),
                   VALID_FLAG_ADDRESS, VALID_SETTINGS_FLAG)]

\* A faulty match: also modeColors[2] is given the colour of the theme.
SetThemeFromFilenameAllModes(th, filename) ==
  LET fname == toLowerCase(filename)
  IN IF indexOf(fname, THEME_HULK) >= 0
     THEN [WithTheme(th, THEME_HULK, THEME_ID_HULK, HulkGreen)
             EXCEPT !.modeColors[3] = HulkGreen]
     ELSE [WithTheme(th, THEME_IRONMAN, THEME_ID_IRONMAN, IronmanBlue)
             EXCEPT !.modeColors[3] = IronmanBlue]

SetThemeFromFilename(th, filename) ==
  LET lower == toLowerCase(filename)
      fname == IF startsWith(lower, "/") THEN substring(lower, 1, Len(lower))
               ELSE lower
      default == WithTheme(th, THEME_IRONMAN, THEME_ID_IRONMAN, IronmanBlue)
      matched ==
        IF indexOf(fname, THEME_IRONMAN) >= 0
        THEN WithTheme(default, THEME_IRONMAN, THEME_ID_IRONMAN, IronmanBlue)
        ELSE IF indexOf(fname, THEME_HULK) >= 0
        THEN WithTheme(default, THEME_HULK, THEME_ID_HULK, HulkGreen)
        ELSE IF indexOf(fname, THEME_CAPTAIN) >= 0
        THEN WithTheme(default, THEME_CAPTAIN, THEME_ID_CAPTAIN, CaptainBlue)
        ELSE IF indexOf(fname, THEME_THOR) >= 0
        THEN WithTheme(default, THEME_THOR, THEME_ID_THOR, ThorYellow)
        ELSE IF indexOf(fname, THEME_BLACK_WIDOW) >= 0
        THEN WithTheme(default, THEME_BLACK_WIDOW, THEME_ID_BLACK_WIDOW, WidowRed)
        ELSE IF indexOf(fname, THEME_SPIDERMAN) >= 0
        THEN WithTheme(default, THEME_SPIDERMAN, THEME_ID_SPIDERMAN, WidowRed)
        ELSE default
  IN IF currentMode # MODE_PIPBOY THEN SaveThemeAndMode(matched) ELSE matched

SetThemeFromName(th, themeName) ==
  IF strlen(themeName) = 0 THEN th
  ELSE SetThemeFromFilename(th, ("/" \o themeName) \o "00.jpg")

SetThemeFromId(th, themeId) ==
  IF themeId = THEME_ID_PIPBOY
  THEN [th EXCEPT !.modeColors = <<HulkGreen, HulkGreen, HulkGreen>>,
                  !.currentThemeName = "pipboy",
                  !.currentThemeId = THEME_ID_PIPBOY]
  ELSE SetThemeFromName(th,
         CASE themeId = THEME_ID_IRONMAN -> THEME_IRONMAN
           [] themeId = THEME_ID_HULK -> THEME_HULK
           [] themeId = THEME_ID_CAPTAIN -> THEME_CAPTAIN
           [] themeId = THEME_ID_THOR -> THEME_THOR
           [] themeId = THEME_ID_BLACK_WIDOW -> THEME_BLACK_WIDOW
           [] themeId = THEME_ID_SPIDERMAN -> THEME_SPIDERMAN
           [] OTHER -> THEME_IRONMAN)

\* No call of loadSavedThemeAndMode is on record.
NotLoaded ==
  [result |-> FALSE, loadedMode |-> -1, loadedThemeId |-> -1,
   priorMode |-> -1, priorThemeId |-> -1]

\* loadSavedThemeAndMode on two ints that hold priorMode and priorThemeId.
LoadSavedThemeAndMode(e, priorMode, priorThemeId) ==
  LET unloaded == [result |-> FALSE, loadedMode |-> priorMode,
                   loadedThemeId |-> priorThemeId, priorMode |-> priorMode,
                   priorThemeId |-> priorThemeId]
      savedThemeId == readInt(e, THEME_ADDRESS)
      savedMode == readInt(e, MODE_ADDRESS)
  IN IF readUChar(e, VALID_FLAG_ADDRESS) # VALID_SETTINGS_FLAG THEN unloaded
     ELSE IF savedMode < 0 \/ savedMode >= MODE_TOTAL THEN unloaded
     ELSE [unloaded EXCEPT !.result = TRUE, !.loadedMode = savedMode,
                           !.loadedThemeId = savedThemeId]

(***************************************************************************)
(* The state machine.  One clock mode is active; the mode driver (the main *)
(* sketch) sets the time once per tick and calls the active mode's         *)
(* routines.                                                               *)
(***************************************************************************)

Modes == {MODE_ARC_DIGITAL, MODE_ARC_ANALOG, MODE_GIF_DIGITAL, MODE_WEATHER,
          MODE_APPLE_RINGS}

\* The rings are followed on the display of the mode that draws them.
DrawnRings == IF currentMode = MODE_APPLE_RINGS THEN RingRadii ELSE {}

BlankDisplay ==
  [rings |-> [r \in DrawnRings |-> BlankRow(r, TFT_BLACK)],
   caps |-> [r \in DrawnRings |-> {}],
   digits |-> NoDigits, segs |-> {}, hands |-> {}, clock |-> NoClock,
   log |-> <<>>]

\* The trackers of the active mode, with the refresh request.
Trackers ==
  CASE currentMode = MODE_APPLE_RINGS ->
         [prevRingHours |-> prevRingHours, prevRingMinutes |-> prevRingMinutes,
          prevRingSeconds |-> prevRingSeconds, fullRedrawDone |-> fullRedrawDone]
    [] currentMode = MODE_ARC_ANALOG ->
         [prevSecond |-> prevSecond, prevMinuteXY |-> prevMinuteXY,
          prevHourXY |-> prevHourXY, prevMinuteAngle |-> prevMinuteAngle,
          prevHourAngle |-> prevHourAngle, needClockRefresh |-> needClockRefresh]
    [] currentMode = MODE_WEATHER ->
         [prevWeatherHours |-> prevWeatherHours,
          prevWeatherMinutes |-> prevWeatherMinutes,
          prevWeatherSeconds |-> prevWeatherSeconds, lastSecond |-> lastSecond,
          needClockRefresh |-> needClockRefresh]
    [] currentMode = MODE_ARC_DIGITAL ->
         [prevHours |-> prevHours, prevMinutes |-> prevMinutes,
          prevSeconds |-> prevSeconds, prevColonState |-> prevColonState,
          showColon |-> showColon]
    [] currentMode = MODE_GIF_DIGITAL ->
         [prevHoursGif |-> prevHoursGif, prevMinutesGif |-> prevMinutesGif,
          prevSecondsGif |-> prevSecondsGif, prevColonStateGif |-> prevColonStateGif,
          showColonGif |-> showColonGif, gifDigitalBuffer |-> gifDigitalBuffer,
          gifDigitalSize |-> gifDigitalSize]
    [] currentMode = MODE_PIPBOY ->
         [gifBuffer |-> gifBuffer, gifSize |-> gifSize]

\* The state after boot in one of the given modes.
Boot(modes) ==
  /\ currentMode \in modes
  /\ is24Hour \in BOOLEAN
  /\ hours \in HourVals
  /\ minutes \in MinuteVals
  /\ seconds \in SecondVals
  /\ needClockRefresh = FALSE
  /\ tft = BlankDisplay
  /\ prevRingHours = -1 /\ prevRingMinutes = -1 /\ prevRingSeconds = -1
  /\ fullRedrawDone = FALSE
  /\ prevSecond = -1 /\ prevMinuteXY = -1 /\ prevHourXY = -1
  /\ prevMinuteAngle = -1 /\ prevHourAngle = -1
  /\ prevWeatherHours = -1 /\ prevWeatherMinutes = -1 /\ prevWeatherSeconds = -1
  /\ lastSecond = -1
  /\ prevHours = -1 /\ prevMinutes = -1 /\ prevSeconds = -1
  /\ prevColonState = FALSE /\ showColon = TRUE
  /\ prevHoursGif = -1 /\ prevMinutesGif = -1 /\ prevSecondsGif = -1
  /\ prevColonStateGif = FALSE /\ showColonGif = TRUE
  /\ gifDigitalBuffer = NULL /\ gifDigitalSize = 0 /\ gifDigitalClock = NULL
  /\ gifBuffer = NULL /\ gifSize = 0 /\ gif = NULL
  /\ heap = {}
  /\ freedTwice = FALSE
  /\ played = {}
  /\ gifLoaded = FALSE
  /\ colorMappings = NoMappings
  /\ numColorMappings = 0
  /\ colorMapFile = NoFile
  /\ fileWritten = FALSE
  /\ openFailures = 0
  /\ request = NoRequest
  /\ currentLedColor = 0
  /\ asked = [f \in FileNames |-> NotAsked]
  /\ got = NotAsked
  /\ currentThemeName = THEME_IRONMAN
  /\ currentThemeId = THEME_ID_IRONMAN
  /\ modeColors = DefaultModeColors
  /\ eeprom = ErasedEeprom
  /\ themeArg = ""
  /\ loadCall = NotLoaded
  /\ ticked = FALSE
  /\ lastOp = "boot"
  /\ repeated = FALSE
  /\ pre = Trackers

Init == Boot(Modes)

\* What every operation records: its name, the trackers it started from, and
\* whether it repeats the update routine that ran just before it.
Ran(op) ==
  /\ lastOp' = op
  /\ repeated' = (lastOp = op /\ ~ticked)
  /\ pre' = Trackers

\* The driver serves a pending full refresh before the next tick.
TickAllowed == ~needClockRefresh

\* The driver calls the mode's update right after it has set the time; every
\* other routine runs between ticks.
Idle == ~ticked

\* A faulty time step: the seconds wrap one too late and reach 60.
updateTimeAndDateLateWrap ==
  /\ Idle
  /\ TickAllowed
  /\ hours' \in HourVals
  /\ minutes' \in MinuteVals
  /\ seconds' \in SecondVals \cup {60}
  /\ ticked' = TRUE
  /\ tft' = ClearLog(tft)
  /\ Ran("updateTimeAndDate")
  /\ UNCHANGED <<themeVars, bufferVars, memoryVars, currentMode, is24Hour, needClockRefresh, appleVars, analogVars,
                 weatherVars, digitalVars, gifVars>>

\* updateTimeAndDate: the time source sets hours, minutes and seconds.
updateTimeAndDate ==
  /\ Idle
  /\ TickAllowed
  /\ hours' \in HourVals
  /\ minutes' \in MinuteVals
  /\ seconds' \in SecondVals
  /\ ticked' = TRUE
  /\ tft' = ClearLog(tft)
  /\ Ran("updateTimeAndDate")
  /\ UNCHANGED <<themeVars, bufferVars, memoryVars, currentMode, is24Hour, needClockRefresh, appleVars, analogVars,
                 weatherVars, digitalVars, gifVars>>

\* updateTimeAndDate when the time source delivers one value that is outside
\* its modulus (tm_sec = 60, tm_min = 60 or tm_hour = 24): the code copies the
\* three fields as they are.
updateTimeAndDateAnomaly ==
  /\ Idle
  /\ TickAllowed
  /\ \E h \in HourVals \cup {24}, m \in MinuteVals \cup {60}, s \in SecondVals \cup {60} :
       /\ \/ h = 24 /\ m \in MinuteVals /\ s \in SecondVals
          \/ h \in HourVals /\ m = 60 /\ s \in SecondVals
          \/ h \in HourVals /\ m \in MinuteVals /\ s = 60
       /\ hours' = h
       /\ minutes' = m
       /\ seconds' = s
  /\ ticked' = TRUE
  /\ tft' = ClearLog(tft)
  /\ Ran("updateTimeAndDate")
  /\ UNCHANGED <<themeVars, bufferVars, memoryVars, currentMode, is24Hour, needClockRefresh, appleVars, analogVars,
                 weatherVars, digitalVars, gifVars>>

(* Apple Rings *)

initAppleRingsTheme ==
  /\ currentMode = MODE_APPLE_RINGS
  /\ Idle
  /\ prevRingHours' = -1
  /\ prevRingMinutes' = -1
  /\ prevRingSeconds' = -1
  /\ fullRedrawDone' = FALSE
  /\ tft' = ClearLog(tft)
  /\ ticked' = FALSE
  /\ Ran("initAppleRingsTheme")
  /\ UNCHANGED <<themeVars, bufferVars, memoryVars, currentMode, timeVars, is24Hour, needClockRefresh, analogVars,
                 weatherVars, digitalVars, gifVars>>

drawAppleRingsInterface ==
  /\ currentMode = MODE_APPLE_RINGS
  /\ Idle
  /\ forceCorrectRingDisplay
  /\ ticked' = FALSE
  /\ Ran("drawAppleRingsInterface")
  /\ UNCHANGED <<themeVars, bufferVars, memoryVars, currentMode, timeVars, is24Hour, needClockRefresh, analogVars,
                 weatherVars, digitalVars, gifVars>>

updateAppleRingsTime ==
  /\ currentMode = MODE_APPLE_RINGS
  /\ TickAllowed
  /\ IF ~fullRedrawDone
     THEN forceCorrectRingDisplay
     ELSE /\ tft' = UpdateDigits(UpdateSecondsRing(UpdateMinutesRing(
                      UpdateHoursRing(ClearLog(tft)))))
          /\ prevRingHours' = hours
          /\ prevRingMinutes' = minutes
          /\ prevRingSeconds' = seconds
          /\ UNCHANGED fullRedrawDone
  /\ ticked' = FALSE
  /\ Ran("updateAppleRingsTime")
  /\ UNCHANGED <<themeVars, bufferVars, memoryVars, currentMode, timeVars, is24Hour, needClockRefresh, analogVars,
                 weatherVars, digitalVars, gifVars>>

cleanupAppleRingsMode ==
  /\ currentMode = MODE_APPLE_RINGS
  /\ Idle
  /\ fullRedrawDone' = FALSE
  /\ tft' = ClearLog(tft)
  /\ ticked' = FALSE
  /\ Ran("cleanupAppleRingsMode")
  /\ UNCHANGED <<themeVars, bufferVars, memoryVars, currentMode, timeVars, is24Hour, needClockRefresh,
                 prevRingHours, prevRingMinutes, prevRingSeconds, analogVars,
                 weatherVars, digitalVars, gifVars>>

(* Arc analog *)

\* The driver draws the mode's background before it calls initAnalogClock.
initAnalogClock ==
  /\ currentMode = MODE_ARC_ANALOG
  /\ Idle
  /\ prevMinuteXY' = -1
  /\ prevHourXY' = -1
  /\ prevSecond' = -1
  /\ prevMinuteAngle' = -1
  /\ prevHourAngle' = -1
  /\ tft' = drawClockFace(drawBackground(ClearLog(tft)))
  /\ ticked' = FALSE
  /\ Ran("initAnalogClock")
  /\ UNCHANGED <<themeVars, bufferVars, memoryVars, currentMode, timeVars, is24Hour, needClockRefresh, appleVars,
                 weatherVars, digitalVars, gifVars>>

drawAnalogClock ==
  /\ currentMode = MODE_ARC_ANALOG
  /\ Idle
  /\ AnalogCommit(DrawAnalogClock(AnalogState(drawBackground(ClearLog(tft)))))
  /\ ticked' = FALSE
  /\ Ran("drawAnalogClock")
  /\ UNCHANGED <<themeVars, bufferVars, memoryVars, currentMode, timeVars, is24Hour, appleVars, weatherVars,
                 digitalVars, gifVars>>

updateAnalogClock ==
  /\ currentMode = MODE_ARC_ANALOG
  /\ TickAllowed
  /\ AnalogCommit(UpdateAnalogClock(AnalogState(ClearLog(tft))))
  /\ ticked' = FALSE
  /\ Ran("updateAnalogClock")
  /\ UNCHANGED <<themeVars, bufferVars, memoryVars, currentMode, timeVars, is24Hour, appleVars, weatherVars,
                 digitalVars, gifVars>>

(* Weather *)

WeatherCommit(w) ==
  /\ tft' = w.tft
  /\ prevWeatherHours' = w.prevWeatherHours
  /\ prevWeatherMinutes' = w.prevWeatherMinutes
  /\ lastSecond' = w.lastSecond
  /\ needClockRefresh' = w.needClockRefresh

initWeatherTheme ==
  /\ currentMode = MODE_WEATHER
  /\ Idle
  /\ prevWeatherHours' = -1
  /\ prevWeatherMinutes' = -1
  /\ prevWeatherSeconds' = -1
  /\ tft' = ClearLog(tft)
  /\ ticked' = FALSE
  /\ Ran("initWeatherTheme")
  /\ UNCHANGED <<themeVars, bufferVars, memoryVars, currentMode, timeVars, is24Hour, needClockRefresh, lastSecond,
                 appleVars, analogVars, digitalVars, gifVars>>

drawWeatherInterface ==
  /\ currentMode = MODE_WEATHER
  /\ Idle
  /\ tft' = DrawWeatherInterface(ClearLog(tft))
  /\ ticked' = FALSE
  /\ Ran("drawWeatherInterface")
  /\ UNCHANGED <<themeVars, bufferVars, memoryVars, currentMode, timeVars, is24Hour, needClockRefresh, weatherVars,
                 appleVars, analogVars, digitalVars, gifVars>>

updateWeatherTime ==
  /\ currentMode = MODE_WEATHER
  /\ TickAllowed
  /\ WeatherCommit(UpdateWeatherTime(WeatherState(ClearLog(tft))))
  /\ ticked' = FALSE
  /\ Ran("updateWeatherTime")
  /\ UNCHANGED <<themeVars, bufferVars, memoryVars, currentMode, timeVars, is24Hour, prevWeatherSeconds, appleVars,
                 analogVars, digitalVars, gifVars>>

\* The driver's full refresh once a routine has set needClockRefresh: the
\* background is redrawn and the mode's full draw routine runs.
refreshClock ==
  /\ needClockRefresh
  /\ Idle
  /\ needClockRefresh' = FALSE
  /\ IF currentMode = MODE_ARC_ANALOG
     THEN /\ LET a == DrawAnalogClock(AnalogState(drawBackground(ClearLog(tft))))
             IN /\ tft' = a.tft
                /\ prevSecond' = a.prevSecond
                /\ prevMinuteXY' = a.prevMinuteXY
                /\ prevMinuteAngle' = a.prevMinuteAngle
                /\ prevHourXY' = a.prevHourXY
                /\ prevHourAngle' = a.prevHourAngle
     ELSE /\ tft' = DrawWeatherInterface(ClearLog(tft))
          /\ UNCHANGED analogVars
  /\ ticked' = FALSE
  /\ Ran("refreshClock")
  /\ UNCHANGED <<themeVars, bufferVars, memoryVars, currentMode, timeVars, is24Hour, weatherVars, appleVars,
                 digitalVars, gifVars>>

(* Arc digital *)

resetArcDigitalVariables ==
  /\ currentMode = MODE_ARC_DIGITAL
  /\ Idle
  /\ prevHours' = -1
  /\ prevMinutes' = -1
  /\ prevSeconds' = -1
  /\ prevColonState' = FALSE
  /\ showColon' = TRUE
  /\ tft' = ClearLog(tft)
  /\ ticked' = FALSE
  /\ Ran("resetArcDigitalVariables")
  /\ UNCHANGED <<themeVars, bufferVars, memoryVars, currentMode, timeVars, is24Hour, needClockRefresh, appleVars,
                 analogVars, weatherVars, gifVars>>

ArcDigitalState(t) ==
  DigitalState(t, prevHours, prevMinutes, prevSeconds, prevColonState, showColon)

ArcDigitalCommit(d) ==
  /\ tft' = d.tft
  /\ prevHours' = d.prevHours
  /\ prevMinutes' = d.prevMinutes
  /\ prevSeconds' = d.prevSeconds
  /\ prevColonState' = d.prevColonState
  /\ showColon' = d.showColon

updateDigitalTime ==
  /\ currentMode = MODE_ARC_DIGITAL
  /\ TickAllowed
  /\ ArcDigitalCommit(UpdateDigitalTime(ArcDigitalState(ClearLog(tft))))
  /\ ticked' = FALSE
  /\ Ran("updateDigitalTime")
  /\ UNCHANGED <<themeVars, bufferVars, memoryVars, currentMode, timeVars, is24Hour, needClockRefresh, appleVars,
                 analogVars, weatherVars, gifVars>>

updateArcDigitalColon ==
  /\ currentMode = MODE_ARC_DIGITAL
  /\ Idle
  /\ ArcDigitalCommit(UpdateDigitalColon(ArcDigitalState(ClearLog(tft))))
  /\ ticked' = FALSE
  /\ Ran("updateArcDigitalColon")
  /\ UNCHANGED <<themeVars, bufferVars, memoryVars, currentMode, timeVars, is24Hour, needClockRefresh, appleVars,
                 analogVars, weatherVars, gifVars>>

(* GIF digital *)

resetGifDigitalVariables ==
  /\ currentMode = MODE_GIF_DIGITAL
  /\ Idle
  /\ prevHoursGif' = -1
  /\ prevMinutesGif' = -1
  /\ prevSecondsGif' = -1
  /\ prevColonStateGif' = FALSE
  /\ showColonGif' = TRUE
  /\ tft' = ClearLog(tft)
  /\ ticked' = FALSE
  /\ Ran("resetGifDigitalVariables")
  /\ UNCHANGED <<themeVars, bufferVars, memoryVars, currentMode, timeVars, is24Hour, needClockRefresh, appleVars,
                 analogVars, weatherVars, digitalVars>>

GifDigitalState(t) ==
  DigitalState(t, prevHoursGif, prevMinutesGif, prevSecondsGif, prevColonStateGif,
               showColonGif)

GifDigitalCommit(d) ==
  /\ tft' = d.tft
  /\ prevHoursGif' = d.prevHours
  /\ prevMinutesGif' = d.prevMinutes
  /\ prevSecondsGif' = d.prevSeconds
  /\ prevColonStateGif' = d.prevColonState
  /\ showColonGif' = d.showColon

updateGifDigitalTime ==
  /\ currentMode = MODE_GIF_DIGITAL
  /\ TickAllowed
  /\ GifDigitalCommit(UpdateDigitalTime(GifDigitalState(ClearLog(tft))))
  /\ ticked' = FALSE
  /\ Ran("updateGifDigitalTime")
  /\ UNCHANGED <<themeVars, bufferVars, memoryVars, currentMode, timeVars, is24Hour, needClockRefresh, appleVars,
                 analogVars, weatherVars, digitalVars>>

updateGifDigitalColon ==
  /\ currentMode = MODE_GIF_DIGITAL
  /\ Idle
  /\ GifDigitalCommit(UpdateDigitalColon(GifDigitalState(ClearLog(tft))))
  /\ ticked' = FALSE
  /\ Ran("updateGifDigitalColon")
  /\ UNCHANGED <<themeVars, bufferVars, memoryVars, currentMode, timeVars, is24Hour, needClockRefresh, appleVars,
                 analogVars, weatherVars, digitalVars>>

(* Arc digital background: the screen is cleared and the JPEG drawn. *)
drawArcReactorBackground ==
  /\ currentMode = MODE_ARC_DIGITAL
  /\ Idle
  /\ tft' = Logged(fillScreen(ClearLog(tft), TFT_BLACK), "displayJPEGBackground",
                   NoColor)
  /\ ticked' = FALSE
  /\ Ran("drawArcReactorBackground")
  /\ UNCHANGED <<themeVars, bufferVars, memoryVars, currentMode, timeVars, is24Hour, needClockRefresh, appleVars,
                 analogVars, weatherVars, digitalVars, gifVars>>

(* GIF backgrounds *)

GifDigitalBufferState(t) == GifState(t, gifDigitalBuffer, gifDigitalSize, gifDigitalClock)

GifDigitalBufferCommit(g) ==
  /\ tft' = g.tft
  /\ gifDigitalBuffer' = g.buffer
  /\ gifDigitalSize' = g.size
  /\ gifDigitalClock' = g.clock
  /\ heap' = g.heap
  /\ freedTwice' = g.freedTwice
  /\ played' = g.played
  /\ UNCHANGED <<gifBuffer, gifSize, gif>>

\* The theme colours that displayGIFDigitalBackground sets from the file name
\* are not among the variables followed here.
displayGIFDigitalBackground ==
  /\ currentMode = MODE_GIF_DIGITAL
  /\ Idle
  /\ \E f \in GifFiles, p \in {NULL} \cup (Addresses \ (heap \ {gifDigitalBuffer})) :
       LET g == DisplayGIFDigitalBackground(GifDigitalBufferState(ClearLog(tft)), f, p)
       IN /\ GifDigitalBufferCommit(g)
          /\ gifLoaded' = g.ok
  /\ ticked' = FALSE
  /\ Ran("displayGIFDigitalBackground")
  /\ UNCHANGED <<themeVars, memoryVars, currentMode, timeVars, is24Hour, needClockRefresh, appleVars,
                 analogVars, weatherVars, digitalVars, gifVars>>

drawGifDigitalBackground ==
  /\ currentMode = MODE_GIF_DIGITAL
  /\ Idle
  /\ \E f \in GifFiles, p \in {NULL} \cup (Addresses \ (heap \ {gifDigitalBuffer})) :
       LET g == DisplayGIFDigitalBackground(
                  GifDigitalBufferState(fillScreen(ClearLog(tft), TFT_BLACK)), f, p)
       IN /\ GifDigitalBufferCommit(g)
          /\ gifLoaded' = g.ok
  /\ ticked' = FALSE
  /\ Ran("drawGifDigitalBackground")
  /\ UNCHANGED <<themeVars, memoryVars, currentMode, timeVars, is24Hour, needClockRefresh, appleVars,
                 analogVars, weatherVars, digitalVars, gifVars>>

updateGifDigitalBackground ==
  /\ currentMode = MODE_GIF_DIGITAL
  /\ Idle
  /\ \E more \in BOOLEAN :
       GifDigitalBufferCommit(UpdateGif(GifDigitalBufferState(ClearLog(tft)), more))
  /\ ticked' = FALSE
  /\ Ran("updateGifDigitalBackground")
  /\ UNCHANGED <<themeVars, memoryVars, currentMode, timeVars, is24Hour, needClockRefresh, appleVars,
                 analogVars, weatherVars, digitalVars, gifVars, gifLoaded>>

cleanupGifDigitalMode ==
  /\ currentMode = MODE_GIF_DIGITAL
  /\ Idle
  /\ GifDigitalBufferCommit(GifCleanup(GifDigitalBufferState(ClearLog(tft))))
  /\ ticked' = FALSE
  /\ Ran("cleanupGifDigitalMode")
  /\ UNCHANGED <<themeVars, memoryVars, currentMode, timeVars, is24Hour, needClockRefresh, appleVars,
                 analogVars, weatherVars, digitalVars, gifVars, gifLoaded>>

PipBoyBufferState(t) == GifState(t, gifBuffer, gifSize, gif)

PipBoyBufferCommit(g) ==
  /\ tft' = g.tft
  /\ gifBuffer' = g.buffer
  /\ gifSize' = g.size
  /\ gif' = g.clock
  /\ heap' = g.heap
  /\ freedTwice' = g.freedTwice
  /\ played' = g.played
  /\ UNCHANGED <<gifDigitalBuffer, gifDigitalSize, gifDigitalClock>>

loadAndInitGIF ==
  /\ currentMode = MODE_PIPBOY
  /\ Idle
  /\ \E f \in GifFiles, p \in {NULL} \cup (Addresses \ (heap \ {gifBuffer})) :
       LET g == LoadAndInitGIF(PipBoyBufferState(ClearLog(tft)), f, p)
       IN /\ PipBoyBufferCommit(g)
          /\ gifLoaded' = g.ok
  /\ ticked' = FALSE
  /\ Ran("loadAndInitGIF")
  /\ UNCHANGED <<themeVars, memoryVars, currentMode, timeVars, is24Hour, needClockRefresh, appleVars,
                 analogVars, weatherVars, digitalVars, gifVars>>

updatePipBoyGif ==
  /\ currentMode = MODE_PIPBOY
  /\ Idle
  /\ \E more \in BOOLEAN :
       PipBoyBufferCommit(UpdateGif(PipBoyBufferState(ClearLog(tft)), more))
  /\ ticked' = FALSE
  /\ Ran("updatePipBoyGif")
  /\ UNCHANGED <<themeVars, memoryVars, currentMode, timeVars, is24Hour, needClockRefresh, appleVars,
                 analogVars, weatherVars, digitalVars, gifVars, gifLoaded>>

cleanupPipBoyMode ==
  /\ currentMode = MODE_PIPBOY
  /\ Idle
  /\ PipBoyBufferCommit(GifCleanup(PipBoyBufferState(ClearLog(tft))))
  /\ ticked' = FALSE
  /\ Ran("cleanupPipBoyMode")
  /\ UNCHANGED <<themeVars, memoryVars, currentMode, timeVars, is24Hour, needClockRefresh, appleVars,
                 analogVars, weatherVars, digitalVars, gifVars, gifLoaded>>

(* Colour memory *)

ColorMemoryCommit(cm) ==
  /\ colorMappings' = cm.colorMappings
  /\ numColorMappings' = cm.numColorMappings
  /\ colorMapFile' = cm.colorMapFile
  /\ fileWritten' = cm.wrote
  /\ openFailures' = openFailures + (IF cm.failed THEN 1 ELSE 0)

saveThemeColorPreference ==
  /\ Idle
  /\ \E filename \in FileNames, colorIndex \in ColorArgs, opens \in OpenOutcomes :
       /\ ColorMemoryCommit(SaveThemeColorPreference(ColorMemory, filename,
                                                     colorIndex, opens))
       /\ request' = [filename |-> filename, colorIndex |-> colorIndex]
       /\ asked' = IF SaveAccepted(filename, colorIndex)
                   THEN [asked EXCEPT ![filename] =
                           [filename |-> filename, colorIndex |-> colorIndex,
                            hadRoom |-> \/ findThemeColorMapping(ColorMemory, filename) >= 0
                                        \/ numColorMappings < MAX_THEME_MAPPINGS]]
                   ELSE asked
  /\ got' = NotAsked
  /\ tft' = ClearLog(tft)
  /\ ticked' = FALSE
  /\ Ran("saveThemeColorPreference")
  /\ UNCHANGED <<themeVars, bufferVars, currentLedColor, currentMode, timeVars, is24Hour,
                 needClockRefresh, appleVars, analogVars, weatherVars, digitalVars,
                 gifVars>>

getThemeColorPreference ==
  /\ Idle
  /\ \E filename \in FileNames :
       got' = [filename |-> filename,
               colorIndex |-> GetThemeColorPreference(ColorMemory, filename),
               hadRoom |-> FALSE]
  /\ tft' = ClearLog(tft)
  /\ ticked' = FALSE
  /\ Ran("getThemeColorPreference")
  /\ fileWritten' = FALSE
  /\ request' = NoRequest
  /\ UNCHANGED <<themeVars, bufferVars, colorMappings, numColorMappings, colorMapFile,
                 openFailures, currentLedColor, asked, currentMode, timeVars, is24Hour,
                 needClockRefresh, appleVars, analogVars, weatherVars, digitalVars,
                 gifVars>>

resetAllColorMappings ==
  /\ Idle
  /\ \E opens \in OpenOutcomes :
       ColorMemoryCommit(ResetAllColorMappings(ColorMemory, opens))
  /\ asked' = [f \in FileNames |-> NotAsked]
  /\ request' = NoRequest
  /\ got' = NotAsked
  /\ tft' = ClearLog(tft)
  /\ ticked' = FALSE
  /\ Ran("resetAllColorMappings")
  /\ UNCHANGED <<themeVars, bufferVars, currentLedColor, currentMode, timeVars, is24Hour,
                 needClockRefresh, appleVars, analogVars, weatherVars, digitalVars,
                 gifVars>>

loadThemeColorMappings ==
  /\ Idle
  /\ \E opens \in OpenOutcomes, reopens \in OpenOutcomes :
       ColorMemoryCommit(LoadThemeColorMappings(ColorMemory, opens, reopens))
  /\ asked' = [f \in FileNames |-> NotAsked]
  /\ request' = NoRequest
  /\ got' = NotAsked
  /\ tft' = ClearLog(tft)
  /\ ticked' = FALSE
  /\ Ran("loadThemeColorMappings")
  /\ UNCHANGED <<themeVars, bufferVars, currentLedColor, currentMode, timeVars, is24Hour,
                 needClockRefresh, appleVars, analogVars, weatherVars, digitalVars,
                 gifVars>>

(* Themes *)

ThemeCommit(th) ==
  /\ currentThemeName' = th.currentThemeName
  /\ currentThemeId' = th.currentThemeId
  /\ modeColors' = th.modeColors
  /\ eeprom' = th.eeprom

ThemeRan(op) ==
  /\ tft' = ClearLog(tft)
  /\ ticked' = FALSE
  /\ Ran(op)
  /\ UNCHANGED <<bufferVars, memoryVars, currentMode, timeVars, is24Hour,
                 needClockRefresh, appleVars, analogVars, weatherVars, digitalVars,
                 gifVars>>

setThemeFromFilename ==
  /\ Idle
  /\ \E filename \in ThemeFiles :
       /\ ThemeCommit(SetThemeFromFilename(ThemeState, filename))
       /\ themeArg' = filename
  /\ loadCall' = NotLoaded
  /\ ThemeRan("setThemeFromFilename")

setThemeFromName ==
  /\ Idle
  /\ \E themeName \in {"", THEME_HULK, THEME_THOR} :
       ThemeCommit(SetThemeFromName(ThemeState, themeName))
  /\ themeArg' = ""
  /\ loadCall' = NotLoaded
  /\ ThemeRan("setThemeFromName")

setThemeFromId ==
  /\ Idle
  /\ \E themeId \in 0 .. THEME_ID_PIPBOY :
       ThemeCommit(SetThemeFromId(ThemeState, themeId))
  /\ themeArg' = ""
  /\ loadCall' = NotLoaded
  /\ ThemeRan("setThemeFromId")

saveThemeAndMode ==
  /\ Idle
  /\ ThemeCommit(SaveThemeAndMode(ThemeState))
  /\ themeArg' = ""
  /\ loadCall' = NotLoaded
  /\ ThemeRan("saveThemeAndMode")

loadSavedThemeAndMode ==
  /\ Idle
  /\ \E priorMode \in {-1, MODE_ARC_DIGITAL}, priorThemeId \in {-1, THEME_ID_IRONMAN} :
       loadCall' = LoadSavedThemeAndMode(eeprom, priorMode, priorThemeId)
  /\ themeArg' = ""
  /\ ThemeRan("loadSavedThemeAndMode")
  /\ UNCHANGED <<currentThemeName, currentThemeId, modeColors, eeprom>>

(* drawRing on its own *)

\* The angles, in 0 .. 360, at which the arcs handed to drawRing begin or end.
ArcAngles(radius) == {SectorStart(radius, k) % 360 : k \in Sectors(radius)} \cup {360}

ArcRadii == {MINUTES_RING_RADIUS, SECONDS_RING_RADIUS}

ArcColors == {APPLE_RED, APPLE_RED_BG}

\* The screen is cleared before the arcs of a ring are drawn.
clearScreen ==
  /\ currentMode = MODE_APPLE_RINGS
  /\ lastOp = "drawRing"
  /\ tft' = fillScreen(ClearLog(tft), APPLE_RINGS_BG)
  /\ ticked' = FALSE
  /\ Ran("clearScreen")
  /\ UNCHANGED <<themeVars, bufferVars, memoryVars, currentMode, timeVars, is24Hour, needClockRefresh, appleVars,
                 analogVars, weatherVars, digitalVars, gifVars>>

\* One call of drawRing at the screen centre.
drawRingCall(radius, thickness, startAngle, endAngle, color) ==
  /\ currentMode = MODE_APPLE_RINGS
  /\ tft' = drawRing(ClearLog(tft), radius, thickness, startAngle, endAngle, color)
  /\ ticked' = FALSE
  /\ Ran("drawRing")
  /\ UNCHANGED <<themeVars, bufferVars, memoryVars, currentMode, timeVars, is24Hour, needClockRefresh, appleVars,
                 analogVars, weatherVars, digitalVars, gifVars>>

\* At most two arcs are drawn between two clearings of the screen.
drawRingAny ==
  /\ ~repeated
  /\ \E radius \in ArcRadii, thickness \in {RING_THICKNESS, RING_THICKNESS + 2},
        color \in ArcColors :
       \E startAngle \in ArcAngles(radius), endAngle \in ArcAngles(radius) :
         drawRingCall(radius, thickness, startAngle, endAngle, color)

NextRings ==
  \/ updateTimeAndDate
  \/ initAppleRingsTheme
  \/ drawAppleRingsInterface
  \/ updateAppleRingsTime
  \/ cleanupAppleRingsMode

NextRingsAnomaly ==
  \/ updateTimeAndDate
  \/ updateTimeAndDateAnomaly
  \/ initAppleRingsTheme
  \/ drawAppleRingsInterface
  \/ updateAppleRingsTime
  \/ cleanupAppleRingsMode

NextAnalog ==
  \/ updateTimeAndDate
  \/ initAnalogClock
  \/ drawAnalogClock
  \/ updateAnalogClock
  \/ refreshClock

NextWeather ==
  \/ updateTimeAndDate
  \/ initWeatherTheme
  \/ drawWeatherInterface
  \/ updateWeatherTime
  \/ refreshClock

NextDigital ==
  \/ updateTimeAndDate
  \/ resetArcDigitalVariables
  \/ drawArcReactorBackground
  \/ updateDigitalTime
  \/ updateArcDigitalColon
  \/ resetGifDigitalVariables
  \/ updateGifDigitalTime
  \/ updateGifDigitalColon

NextIncremental ==
  \/ updateTimeAndDate
  \/ initAppleRingsTheme
  \/ drawAppleRingsInterface
  \/ updateAppleRingsTime
  \/ cleanupAppleRingsMode
  \/ resetArcDigitalVariables
  \/ drawArcReactorBackground
  \/ updateDigitalTime
  \/ updateArcDigitalColon
  \/ resetGifDigitalVariables
  \/ updateGifDigitalTime
  \/ updateGifDigitalColon

Next ==
  \/ NextIncremental
  \/ initAnalogClock
  \/ drawAnalogClock
  \/ updateAnalogClock
  \/ initWeatherTheme
  \/ drawWeatherInterface
  \/ updateWeatherTime
  \/ refreshClock

NextGif ==
  \/ displayGIFDigitalBackground
  \/ drawGifDigitalBackground
  \/ updateGifDigitalBackground
  \/ cleanupGifDigitalMode
  \/ loadAndInitGIF
  \/ updatePipBoyGif
  \/ cleanupPipBoyMode

NextColorMemory ==
  \/ saveThemeColorPreference
  \/ getThemeColorPreference
  \/ resetAllColorMappings

NextColorFile ==
  \/ saveThemeColorPreference
  \/ resetAllColorMappings
  \/ loadThemeColorMappings

NextTheme ==
  \/ setThemeFromFilename
  \/ setThemeFromName
  \/ setThemeFromId
  \/ saveThemeAndMode
  \/ loadSavedThemeAndMode

NextDrawRing ==
  \/ clearScreen
  \/ drawRingAny

InitDrawRing ==
  /\ Boot({MODE_APPLE_RINGS})
  /\ is24Hour
  /\ hours = 0 /\ minutes = 0 /\ seconds = 0

InitGif ==
  /\ Boot({MODE_GIF_DIGITAL, MODE_PIPBOY})
  /\ is24Hour
  /\ hours = 0 /\ minutes = 0 /\ seconds = 0

InitTheme ==
  /\ Boot(Modes)
  /\ is24Hour
  /\ hours = 0 /\ minutes = 0 /\ seconds = 0

InitColorMemory ==
  /\ Boot({MODE_ARC_DIGITAL, MODE_WEATHER})
  /\ is24Hour
  /\ hours = 0 /\ minutes = 0 /\ seconds = 0

InitRings == Boot({MODE_APPLE_RINGS})
InitAnalog == Boot({MODE_ARC_ANALOG})
InitWeather == Boot({MODE_WEATHER})
InitDigital == Boot({MODE_ARC_DIGITAL, MODE_GIF_DIGITAL})
InitIncremental == Boot({MODE_APPLE_RINGS, MODE_ARC_DIGITAL, MODE_GIF_DIGITAL})

\* The clock runs in the mode it booted in; one specification per mode, one for
\* the modes with incremental time renderers, and one for all.
SpecRings == InitRings /\ [][NextRings]_vars
SpecAnalog == InitAnalog /\ [][NextAnalog]_vars
SpecWeather == InitWeather /\ [][NextWeather]_vars
SpecDigital == InitDigital /\ [][NextDigital]_vars
SpecIncremental == InitIncremental /\ [][NextIncremental]_vars
\* Apple Rings mode with a time source that may deliver a value outside its
\* modulus.
SpecRingsAnomaly == InitRings /\ [][NextRingsAnomaly]_vars

\* The GIF backgrounds of GIF digital mode and of Pip-Boy mode.
SpecGif == InitGif /\ [][NextGif]_vars

\* The colour memory, in a mode that uses it and in weather mode.
SpecColorMemory == InitColorMemory /\ [][NextColorMemory]_vars

\* The colour memory and its file: mappings are saved, reset and loaded.
SpecColorFile == InitColorMemory /\ [][NextColorFile]_vars

\* Themes are set, saved and loaded, in each of the modes.
SpecTheme == InitTheme /\ [][NextTheme]_vars

\* drawRing applied to arcs between the marks of a ring, wrapping or not.
SpecDrawRing == InitDrawRing /\ [][NextDrawRing]_vars

Spec == Init /\ [][Next]_vars

(***************************************************************************)
(* Properties.                                                             *)
(***************************************************************************)

\* The draw calls of the last operation.
LogEntries == {tft.log[i] : i \in DOMAIN tft.log}

\* Those on one ring.
RingCalls(radius) == {e \in LogEntries : e[1] = "drawRing" /\ e[2] = radius}

TrackColor(radius) ==
  CASE radius = HOURS_RING_RADIUS -> APPLE_BLUE_BG
    [] radius = MINUTES_RING_RADIUS -> APPLE_GREEN_BG
    [] radius = SECONDS_RING_RADIUS -> APPLE_RED_BG

ForeColor(radius) ==
  CASE radius = HOURS_RING_RADIUS -> APPLE_BLUE
    [] radius = MINUTES_RING_RADIUS -> APPLE_GREEN
    [] radius = SECONDS_RING_RADIUS -> APPLE_RED

TrackCall(radius) ==
  DrawCall("drawRing", radius, RING_THICKNESS, 0, 360, TrackColor(radius))

\* The ring shows its background track and nothing else.
ShowsTrackOnly(radius) ==
  /\ \A k \in Sectors(radius) : Base(tft, radius, k) = TrackColor(radius)
  /\ tft.caps[radius] = {}

\* The last operation redrew the ring's track and painted no foreground on it.
RolledOver(radius) ==
  /\ TrackCall(radius) \in RingCalls(radius)
  /\ \A e \in RingCalls(radius) : e[6] # ForeColor(radius)
  /\ ShowsTrackOnly(radius)

\* C1: in Apple Rings mode, when updateAppleRingsTime sees the minutes or the
\* seconds become 0 after a positive previous value, it redraws the ring's
\* full background track and paints no foreground arc on it: the ring shows no
\* foreground afterwards, and no full-circle foreground arc is drawn.
C1_RolloverClearsRing ==
  lastOp = "updateAppleRingsTime" =>
    /\ (seconds = 0 /\ pre.prevRingSeconds > 0) => RolledOver(SECONDS_RING_RADIUS)
    /\ (minutes = 0 /\ pre.prevRingMinutes > 0) => RolledOver(MINUTES_RING_RADIUS)

\* C1 happens: an incremental update took the seconds from 59 to 0.
C1_Witness ==
  /\ lastOp = "updateAppleRingsTime"
  /\ pre.fullRedrawDone
  /\ seconds = 0 /\ pre.prevRingSeconds = 59
  /\ minutes = 0 /\ pre.prevRingMinutes = 59

\* The value a ring shows, the value it showed before the last operation, and
\* the angle at which the sweep of a value ends.
RingValue(radius) ==
  CASE radius = HOURS_RING_RADIUS -> hours
    [] radius = MINUTES_RING_RADIUS -> minutes
    [] radius = SECONDS_RING_RADIUS -> seconds

RingPrev(radius) ==
  CASE radius = HOURS_RING_RADIUS -> pre.prevRingHours
    [] radius = MINUTES_RING_RADIUS -> pre.prevRingMinutes
    [] radius = SECONDS_RING_RADIUS -> pre.prevRingSeconds

EndAngle(radius, value) ==
  CASE radius = HOURS_RING_RADIUS -> -90 + RingDisplayHours(value) * hourDegrees
    [] radius = MINUTES_RING_RADIUS -> -90 + value * minuteDegrees
    [] radius = SECONDS_RING_RADIUS -> -90 + value * secondDegrees

SweepCall(radius, startAngle, endAngle) ==
  DrawCall("drawRing", radius, RING_THICKNESS, startAngle, endAngle, ForeColor(radius))

\* The last operation drew the ring's track and, after it, the sweep from 12
\* o'clock to the end of the current value.
TrackThenSweep(radius) ==
  \E i, j \in DOMAIN tft.log :
    /\ i < j
    /\ tft.log[i] = TrackCall(radius)
    /\ tft.log[j] = SweepCall(radius, -90, EndAngle(radius, RingValue(radius)))

\* The ring shows foreground up to the given angle and its track beyond it.
ShowsSweepTo(radius, endAngle) ==
  \A k \in Sectors(radius) :
    Base(tft, radius, k) = IF SectorEnd(radius, k) <= endAngle
                           THEN ForeColor(radius)
                           ELSE TrackColor(radius)

\* C2: in Apple Rings mode, when a ring's value jumps backward to a non-zero
\* value, updateAppleRingsTime redraws the ring's full background track and
\* then paints the foreground arc from -90 degrees to the end angle of the new
\* value: afterwards no unit beyond the new value is shown as foreground.
C2_BackwardJumpRedrawsTrack ==
  lastOp = "updateAppleRingsTime" =>
    \A r \in RingRadii :
      (0 < RingValue(r) /\ RingValue(r) < RingPrev(r)) =>
        /\ TrackThenSweep(r)
        /\ ShowsSweepTo(r, EndAngle(r, RingValue(r)))

\* C2 happens: an incremental update saw every ring jump backward.
C2_Witness ==
  /\ lastOp = "updateAppleRingsTime"
  /\ pre.fullRedrawDone
  /\ hours = 11 /\ pre.prevRingHours = 23
  /\ minutes = 10 /\ pre.prevRingMinutes = 59
  /\ seconds = 10 /\ pre.prevRingSeconds = 59

\* C3: on a forward change of a ring's value from p to n, 0 <= p < n,
\* updateAppleRingsTime paints foreground only from the end angle of p to the
\* end angle of n and issues no other draw call on that ring.
C3_ForwardPaintsOnlyNewSegment ==
  (lastOp = "updateAppleRingsTime" /\ pre.fullRedrawDone) =>
    \A r \in RingRadii :
      (0 <= RingPrev(r) /\ RingPrev(r) < RingValue(r)) =>
        RingCalls(r) = {SweepCall(r, EndAngle(r, RingPrev(r)),
                                  EndAngle(r, RingValue(r)))}

\* What the code does on a forward change: it repaints the whole sweep from 12
\* o'clock on the minutes and seconds rings.
C3_ForwardRepaintsWholeSweep ==
  (lastOp = "updateAppleRingsTime" /\ pre.fullRedrawDone) =>
    \A r \in {MINUTES_RING_RADIUS, SECONDS_RING_RADIUS} :
      (0 <= RingPrev(r) /\ RingPrev(r) < RingValue(r)) =>
        RingCalls(r) = {SweepCall(r, -90, EndAngle(r, RingValue(r)))}

\* C4: while fullRedrawDone is false the next updateAppleRingsTime draws the
\* track of all three rings and each ring's sweep from 12 o'clock to the end
\* angle of the current value, sets every prevRing variable to the current time
\* and sets fullRedrawDone; later calls do not redraw everything, and the flag
\* stays set until initAppleRingsTheme or cleanupAppleRingsMode.
C4_FirstRender ==
  /\ (lastOp = "updateAppleRingsTime" /\ ~pre.fullRedrawDone) =>
       /\ \A r \in RingRadii :
            /\ TrackCall(r) \in RingCalls(r)
            /\ RingValue(r) > 0 => TrackThenSweep(r)
            /\ ShowsSweepTo(r, EndAngle(r, RingValue(r)))
       /\ prevRingHours = hours
       /\ prevRingMinutes = minutes
       /\ prevRingSeconds = seconds
       /\ fullRedrawDone
  /\ (lastOp = "updateAppleRingsTime" /\ pre.fullRedrawDone) =>
       /\ \A e \in LogEntries : e[1] # "fillScreen"
       /\ fullRedrawDone
  /\ (currentMode = MODE_APPLE_RINGS /\ pre.fullRedrawDone /\ ~fullRedrawDone) =>
       lastOp \in {"initAppleRingsTheme", "cleanupAppleRingsMode"}

\* C4 happens: the first update after cleanupAppleRingsMode, with trackers
\* left over from before it.
C4_Witness ==
  /\ lastOp = "updateAppleRingsTime"
  /\ ~pre.fullRedrawDone
  /\ pre.prevRingSeconds = 59 /\ seconds = 10
  /\ pre.prevRingMinutes = 10 /\ minutes = 59
  /\ hours = 13

\* C5: calling updateAppleRingsTime, updateDigitalTime or updateGifDigitalTime
\* a second time in a row, with the same time and the same colon state, issues
\* no draw call and leaves the previous-value variables unchanged.
C5_SecondCallDrawsNothing ==
  (/\ repeated
   /\ lastOp \in {"updateAppleRingsTime", "updateDigitalTime", "updateGifDigitalTime"}) =>
    /\ tft.log = <<>>
    /\ Trackers = pre

\* C5 happens: updateDigitalTime ran twice in a row with a colon to draw.
C5_Witness ==
  /\ repeated
  /\ lastOp = "updateDigitalTime"
  /\ showColon /\ prevSeconds = 59 /\ prevMinutes = 10 /\ prevHours = 13

\* C6: after every return of updateAppleRingsTime, updateAnalogClock and
\* updateWeatherSecondsIndicator each previous value they track equals the time
\* value the call was given, whichever branch was taken.
C6_PreviousValueFollowsTime ==
  /\ lastOp = "updateAppleRingsTime" =>
       /\ prevRingHours = hours
       /\ prevRingMinutes = minutes
       /\ prevRingSeconds = seconds
  /\ lastOp = "updateAnalogClock" => prevSecond = seconds
  /\ lastOp = "updateWeatherTime" => lastSecond = seconds

\* C7: in Apple Rings mode each prevRing variable is -1 or lies below the
\* units of its ring: 60 for the minutes and seconds, 24 for the hours in
\* 24-hour mode and 12 in 12-hour mode.
C7_PreviousValueInRingRange ==
  currentMode = MODE_APPLE_RINGS =>
    /\ prevRingHours \in {-1} \cup (0 .. ((IF is24Hour THEN 24 ELSE 12) - 1))
    /\ prevRingMinutes \in {-1} \cup (0 .. 59)
    /\ prevRingSeconds \in {-1} \cup (0 .. 59)

\* C7 as the code has it: prevRingHours holds the hour of the day, in 12-hour
\* mode too, so it is -1 or lies in 0 .. 23; the minutes and seconds are -1 or
\* lie in 0 .. 59.
C7_PreviousValueInTimeRange ==
  currentMode = MODE_APPLE_RINGS =>
    /\ prevRingHours \in {-1} \cup (0 .. 23)
    /\ prevRingMinutes \in {-1} \cup (0 .. 59)
    /\ prevRingSeconds \in {-1} \cup (0 .. 59)

\* C7 happens: in 12-hour mode the hours ring remembers hour 23.
C7_Witness ==
  /\ currentMode = MODE_APPLE_RINGS
  /\ ~is24Hour
  /\ lastOp = "updateAppleRingsTime"
  /\ prevRingHours = 23 /\ prevRingMinutes = 59 /\ prevRingSeconds = 59

\* C8: in 12-hour mode, going from hour 11 to 12 to 13, updateAppleRingsTime
\* draws hour 12 as a full circle (a sweep of 360 degrees from -90) and hour 13
\* as a sweep of 30 degrees over a redrawn track: the end angle is computed
\* from the 12-hour display value.
C8_TwelveHourSweep ==
  (lastOp = "updateAppleRingsTime" /\ ~is24Hour /\ pre.fullRedrawDone) =>
    /\ (pre.prevRingHours = 11 /\ hours = 12) =>
         /\ SweepCall(HOURS_RING_RADIUS, -90, 270) \in RingCalls(HOURS_RING_RADIUS)
         /\ ShowsSweepTo(HOURS_RING_RADIUS, 270)
    /\ (pre.prevRingHours = 12 /\ hours = 13) =>
         /\ \E i, j \in DOMAIN tft.log :
              /\ i < j
              /\ tft.log[i] = TrackCall(HOURS_RING_RADIUS)
              /\ tft.log[j] = SweepCall(HOURS_RING_RADIUS, -90, -60)
         /\ ShowsSweepTo(HOURS_RING_RADIUS, -60)

\* C8 happens: in 12-hour mode an incremental update took the hour from 12
\* to 13.
C8_Witness ==
  /\ lastOp = "updateAppleRingsTime"
  /\ ~is24Hour
  /\ pre.fullRedrawDone
  /\ pre.prevRingHours = 12 /\ hours = 13

\* C9: after updateAppleRingsTime the hours ring shows what a fresh
\* forceCorrectRingDisplay at the same time shows, whichever way the state was
\* reached.
C9_HoursRingAsFreshRedraw ==
  lastOp = "updateAppleRingsTime" =>
    /\ tft.rings[HOURS_RING_RADIUS] = ForceDraw(tft).rings[HOURS_RING_RADIUS]
    /\ tft.caps[HOURS_RING_RADIUS] = ForceDraw(tft).caps[HOURS_RING_RADIUS]

\* C10: after initAppleRingsTheme, initAnalogClock, resetArcDigitalVariables,
\* resetGifDigitalVariables or initWeatherTheme every previous-value tracker
\* that the mode's update functions read equals -1.
C10_ActivationResetsTrackers ==
  /\ lastOp = "initAppleRingsTheme" =>
       prevRingHours = -1 /\ prevRingMinutes = -1 /\ prevRingSeconds = -1
  /\ lastOp = "initAnalogClock" =>
       /\ prevSecond = -1 /\ prevMinuteXY = -1 /\ prevHourXY = -1
       /\ prevMinuteAngle = -1 /\ prevHourAngle = -1
  /\ lastOp = "resetArcDigitalVariables" =>
       prevHours = -1 /\ prevMinutes = -1 /\ prevSeconds = -1
  /\ lastOp = "resetGifDigitalVariables" =>
       prevHoursGif = -1 /\ prevMinutesGif = -1 /\ prevSecondsGif = -1
  /\ lastOp = "initWeatherTheme" =>
       /\ prevWeatherHours = -1 /\ prevWeatherMinutes = -1
       /\ lastSecond = -1

\* The sectors of a ring that lie in the arc [startAngle, endAngle].
Region(radius, startAngle, endAngle) ==
  {k \in Sectors(radius) : Covers(radius, k, startAngle, endAngle)}

\* C11: a call of drawRing with endAngle < startAngle (the arc begins at the
\* start angle of its first draw call and ends at the end angle of its last) leaves the display as
\* the arc body for [startAngle, 360] followed by the arc body for
\* [0, endAngle] leaves it, issues exactly those two draw calls, and fills
\* exactly the sectors of those two arcs: every other sector keeps its colour.
C11_WrapIsTwoArcs ==
  [][LET first == tft'.log[1]
         last == tft'.log[Len(tft'.log)]
         radius == first[2]
         thickness == first[3]
         startAngle == first[4]
         endAngle == last[5]
         color == first[6]
     IN (/\ lastOp' = "drawRing"
         /\ endAngle < startAngle
         /\ drawRingCall(radius, thickness, startAngle, endAngle, color))
        => /\ tft' = FillArc(FillArc(ClearLog(tft), radius, thickness,
                                     startAngle, 360, color),
                             radius, thickness, 0, endAngle, color)
           /\ tft'.log = <<DrawCall("drawRing", radius, thickness,
                                    startAngle, 360, color),
                           DrawCall("drawRing", radius, thickness,
                                    0, endAngle, color)>>
           /\ \A k \in Sectors(radius) :
                Base(tft', radius, k) =
                  IF k \in Region(radius, startAngle, 360)
                            \cup Region(radius, 0, endAngle)
                  THEN color ELSE Base(tft, radius, k)]_vars

\* A wrapping arc was drawn over a ring of another colour: both parts cover
\* sectors, and a sector outside them keeps the other colour.
C11_Witness ==
  /\ lastOp = "drawRing"
  /\ Len(tft.log) = 2
  /\ tft.log[1][5] = 360
  /\ tft.log[2][4] = 0
  /\ LET radius == tft.log[1][2]
         color == tft.log[1][6]
     IN /\ Region(radius, tft.log[1][4], 360) # {}
        /\ Region(radius, 0, tft.log[2][5]) # {}
        /\ \E k \in Sectors(radius) :
             /\ Base(tft, radius, k) \in ArcColors \ {color}
             /\ k \notin Region(radius, tft.log[1][4], 360)
                           \cup Region(radius, 0, tft.log[2][5])

\* C12: no update of the rings uses a time value outside its modulus: after
\* updateAppleRingsTime the previous values are in range (hours below 24,
\* minutes and seconds below 60), and no sweep of the minutes or the seconds
\* ring ends beyond the end angle of 59.
C12_OutOfRangeIsClamped ==
  (lastOp \in {"updateAppleRingsTime", "drawAppleRingsInterface"})
  => /\ prevRingHours \in -1 .. 23
     /\ prevRingMinutes \in -1 .. 59
     /\ prevRingSeconds \in -1 .. 59
     /\ \A c \in RingCalls(MINUTES_RING_RADIUS) \cup RingCalls(SECONDS_RING_RADIUS) :
          c[4] = -90 => c[5] <= EndAngle(c[2], 59)

\* The previous value of a ring, as a state function.
PrevRingValue(radius) ==
  CASE radius = HOURS_RING_RADIUS -> prevRingHours
    [] radius = MINUTES_RING_RADIUS -> prevRingMinutes
    [] radius = SECONDS_RING_RADIUS -> prevRingSeconds

\* The rings whose time component differs from its previous value.
ChangedRings == {r \in RingRadii : RingValue(r) # PrevRingValue(r)}

\* C13: when updateAppleRingsTime starts with fullRedrawDone set and exactly
\* one of hours, minutes and seconds differs from its previous value, every
\* ring draw call it issues is at that component's radius, and the other two
\* rings keep their previous values, their sectors and their end caps.
C13_OneRingChanges ==
  [][(/\ lastOp' = "updateAppleRingsTime"
      /\ fullRedrawDone
      /\ Cardinality(ChangedRings) = 1)
     => \A r \in RingRadii \ ChangedRings :
          /\ \A i \in DOMAIN tft'.log :
               tft'.log[i][1] = "drawRing" => tft'.log[i][2] # r
          /\ PrevRingValue(r)' = PrevRingValue(r)
          /\ tft'.rings[r] = tft.rings[r]
          /\ tft'.caps[r] = tft.caps[r]]_vars

\* An update that found only the seconds changed has drawn on the seconds
\* ring, while the other two rings show a sweep.
C13_Witness ==
  /\ lastOp = "updateAppleRingsTime"
  /\ pre.fullRedrawDone
  /\ pre.prevRingHours = hours
  /\ pre.prevRingMinutes = minutes
  /\ pre.prevRingSeconds # seconds
  /\ RingCalls(SECONDS_RING_RADIUS) # {}
  /\ \E k \in Sectors(MINUTES_RING_RADIUS) :
       Base(tft, MINUTES_RING_RADIUS, k) = APPLE_GREEN
  /\ \E k \in Sectors(HOURS_RING_RADIUS) :
       Base(tft, HOURS_RING_RADIUS, k) = APPLE_BLUE

\* The number of units in one revolution of a ring.
UnitsPerRevolution(radius) ==
  CASE radius = HOURS_RING_RADIUS -> IF is24Hour THEN 24 ELSE 12
    [] radius = MINUTES_RING_RADIUS -> 60
    [] radius = SECONDS_RING_RADIUS -> 60

\* Every foreground sweep that the last operation drew ends at the end angle
\* of the ring's current value.
SweepsEndAtEndAngle ==
  \A r \in RingRadii :
    \A c \in RingCalls(r) :
      c[6] = ForeColor(r) =>
        /\ c[4] = -90
        /\ c[5] = EndAngle(r, RingValue(r))

\* The end angle is linear in the value over one revolution of the ring.
EndAngleLinear(radius) ==
  LET u == UnitsPerRevolution(radius)
  IN /\ EndAngle(radius, 0) = -90
     /\ \A v \in 0 .. (u - 1) :
          /\ EndAngle(radius, v) = -90 + v * (360 \div u)
          /\ EndAngle(radius, v) < 270
          /\ v > 0 => EndAngle(radius, v - 1) < EndAngle(radius, v)

\* C14 as stated: the sweeps end at endAngle(v, u) = -90 + v * (360 / u) for
\* u = 12 or 24 (hours), 60 (minutes) and 60 (seconds); endAngle(0, u) = -90,
\* and the end angle grows strictly with v over 0 <= v < u and stays below 270.
C14_EndAngleLinearInValue ==
  /\ SweepsEndAtEndAngle
  /\ \A r \in RingRadii : EndAngleLinear(r)

\* C14, amended: that holds for the minutes, the seconds and the 24-hour
\* hours ring.  In 12-hour mode the end angle is computed from the display
\* value d in 1 .. 12 (hour 0 is 12): it is -90 + d * 30, grows strictly with
\* d and reaches 270, a full circle, at d = 12, so that the end angle of hour
\* value 0 is 270, not -90.
C14_EndAngleLinearInDisplayValue ==
  /\ SweepsEndAtEndAngle
  /\ EndAngleLinear(MINUTES_RING_RADIUS)
  /\ EndAngleLinear(SECONDS_RING_RADIUS)
  /\ is24Hour => EndAngleLinear(HOURS_RING_RADIUS)
  /\ ~is24Hour =>
       \A h \in 0 .. 23 :
         LET d == RingDisplayHours(h)
         IN /\ d \in 1 .. 12
            /\ d = (IF h % 12 = 0 THEN 12 ELSE h % 12)
            /\ EndAngle(HOURS_RING_RADIUS, h) = -90 + d * 30
            /\ EndAngle(HOURS_RING_RADIUS, h) <= 270
            /\ (h % 12 > 1) =>
                 EndAngle(HOURS_RING_RADIUS, h - 1) < EndAngle(HOURS_RING_RADIUS, h)
            /\ (h % 12 = 0) => EndAngle(HOURS_RING_RADIUS, h) = 270

\* In 12-hour mode a full redraw at hour 0 drew the hours sweep to 270, next
\* to a seconds sweep for 59 that ends at 264.
C14_Witness ==
  /\ lastOp = "drawAppleRingsInterface"
  /\ ~is24Hour
  /\ hours = 0
  /\ seconds = 59
  /\ SweepCall(HOURS_RING_RADIUS, -90, 270) \in RingCalls(HOURS_RING_RADIUS)
  /\ SweepCall(SECONDS_RING_RADIUS, -90, 264) \in RingCalls(SECONDS_RING_RADIUS)

\* C15: in arc analog mode, when the seconds ring shows exactly the segments
\* of the previous second (as it does after drawAnalogClock), an
\* updateAnalogClock that leaves no refresh pending leaves exactly the segments
\* 0 .. seconds - 1 lit, whatever the step of the seconds was.
C15_LitSegmentsFollowSeconds ==
  [][(/\ currentMode = MODE_ARC_ANALOG
      /\ lastOp' = "updateAnalogClock"
      /\ prevSecond # -1
      /\ tft.segs = 0 .. (prevSecond - 1)
      /\ ~needClockRefresh')
     => tft'.segs = 0 .. (seconds' - 1)]_vars

\* The last operation cleared the seconds ring and redrew both hands where it
\* stood.
UpdatedInPlace ==
  /\ \A i \in 0 .. 59 :
       DrawCall("drawSecondsArc", 120, 4, 270 + i * 6, 270 + i * 6 + 6, TFT_BLACK)
         \in LogEntries
  /\ DrawCall("drawLine", 0, 0, HourTip(HourAngle), 0, HOUR_HAND_COLOR) \in LogEntries
  /\ DrawCall("drawLine", 0, 0, MinuteTip(MinuteAngle), 0, MINUTE_HAND_COLOR)
       \in LogEntries
  /\ tft.segs = {}

\* C16: an updateAnalogClock that starts with no refresh pending sets
\* needClockRefresh exactly when seconds is 0 and minutes is a multiple of 15;
\* at any other minute boundary that it has not yet served it updates the
\* display in place and requests no refresh.
C16_RefreshEveryFifteenMinutes ==
  (/\ currentMode = MODE_ARC_ANALOG
   /\ lastOp = "updateAnalogClock"
   /\ ~pre.needClockRefresh)
  => /\ needClockRefresh <=> (seconds = 0 /\ minutes % 15 = 0)
     /\ (seconds = 0 /\ minutes % 15 # 0 /\ pre.prevSecond # 0)
          => (UpdatedInPlace /\ ~needClockRefresh)

\* The hours text of a digital mode for an hour of the day.
HoursText(h) == IF is24Hour THEN h ELSE ((h + 11) % 12) + 1

\* The arc digital screen agrees with the trackers: each text field that has
\* been drawn since the reset shows its saved value, and the colon is visible
\* exactly when showColon is true, which prevColonState records.
ArcDigitalInStep ==
  /\ prevHours # -1 => tft.clock.hh = HoursText(prevHours)
  /\ prevMinutes # -1 => tft.clock.mm = prevMinutes
  /\ prevSeconds # -1 => tft.clock.ss = prevSeconds
  /\ tft.clock.colon = showColon
  /\ prevColonState = showColon

\* The state that resetArcDigitalVariables leaves.
ArcDigitalReset ==
  /\ prevHours = -1 /\ prevMinutes = -1 /\ prevSeconds = -1
  /\ prevColonState = FALSE /\ showColon = TRUE

\* C17: in arc digital mode, starting from the reset state or from a screen
\* that agrees with the trackers, every updateDigitalTime leaves hours (1-12
\* in 12-hour mode), minutes and seconds on the screen as they are now, and
\* every updateArcDigitalColon leaves the text as it was; after either, the
\* colon is visible exactly when showColon is true and prevColonState equals
\* showColon.
C17_ScreenFollowsClock ==
  [][(/\ currentMode = MODE_ARC_DIGITAL
      /\ lastOp' \in {"updateDigitalTime", "updateArcDigitalColon"}
      /\ ArcDigitalReset \/ ArcDigitalInStep)
     => /\ ArcDigitalInStep'
        /\ lastOp' = "updateDigitalTime" =>
             /\ tft'.clock.hh = HoursText(hours')
             /\ tft'.clock.mm = minutes'
             /\ tft'.clock.ss = seconds'
             /\ showColon' = showColon
        /\ lastOp' = "updateArcDigitalColon" =>
             /\ tft'.clock.hh = tft.clock.hh
             /\ tft'.clock.mm = tft.clock.mm
             /\ tft'.clock.ss = tft.clock.ss
             /\ showColon' = ~showColon]_vars

\* In 12-hour mode, with the colon hidden, updateDigitalTime has taken the
\* screen from another hour to 13, shown as 1.
C17_Witness ==
  /\ currentMode = MODE_ARC_DIGITAL
  /\ lastOp = "updateDigitalTime"
  /\ ~is24Hour
  /\ pre.prevHours \notin {-1, 13}
  /\ hours = 13
  /\ tft.clock.hh = 1
  /\ ~showColon
  /\ ~tft.clock.colon

\* C18: between the calls of the GIF routines of GIF digital mode and of
\* Pip-Boy mode, each buffer pointer is NULL exactly when its size is 0, at
\* most one buffer is allocated, the allocated addresses are exactly those the
\* pointers hold (no leak, no pointer to freed memory), no address was freed
\* that was not allocated, and every frame the last call played was read from
\* an allocated buffer.
C18_BufferLifecycle ==
  /\ gifDigitalBuffer = NULL <=> gifDigitalSize = 0
  /\ gifBuffer = NULL <=> gifSize = 0
  /\ Cardinality(heap) <= 1
  /\ heap = {gifDigitalBuffer, gifBuffer} \ {NULL}
  /\ gifDigitalClock \in {NULL, gifDigitalBuffer}
  /\ gif \in {NULL, gifBuffer}
  /\ ~freedTwice
  /\ played \subseteq {"live"}
  /\ (played # {} /\ lastOp = "updateGifDigitalBackground") => gifDigitalBuffer \in heap
  /\ (played # {} /\ lastOp = "updatePipBoyGif") => gifBuffer \in heap

\* A GIF was loaded over one that was loaded before: the old buffer was
\* freed, the new one is the only one allocated, and its first frame was
\* played from it.
C18_Witness ==
  /\ lastOp = "displayGIFDigitalBackground"
  /\ gifLoaded
  /\ pre.gifDigitalBuffer # NULL
  /\ gifDigitalBuffer # NULL
  /\ heap = {gifDigitalBuffer}
  /\ played = {"live"}

\* C19: after a displayGIFDigitalBackground that returned false (called
\* directly or by drawGifDigitalBackground) no GIF is loaded, and as long as
\* no load has succeeded since, updateGifDigitalBackground plays no frame.
C19_FailedLoadLeavesNoGif ==
  (currentMode = MODE_GIF_DIGITAL /\ ~gifLoaded)
  => /\ lastOp \in {"displayGIFDigitalBackground", "drawGifDigitalBackground"}
          => (gifDigitalBuffer = NULL /\ gifDigitalSize = 0)
     /\ lastOp = "updateGifDigitalBackground" => played = {}

\* C20 as stated: outside weather mode, getThemeColorPreference(f) returns
\* the colour of the last accepted saveThemeColorPreference(f, c) since the
\* last resetAllColorMappings, whatever was saved for other file names since.
C20_RemembersEverySave ==
  (/\ lastOp = "getThemeColorPreference"
   /\ currentMode # MODE_WEATHER
   /\ asked[got.filename] # NotAsked)
  => got.colorIndex = asked[got.filename].colorIndex

\* C20, amended: it does when that save found a mapping for f in the table
\* or fewer than MAX_THEME_MAPPINGS mappings in it; a save for a new file
\* name into a full table is dropped.
C20_RemembersSaveWithRoom ==
  (/\ lastOp = "getThemeColorPreference"
   /\ currentMode # MODE_WEATHER
   /\ asked[got.filename] # NotAsked
   /\ asked[got.filename].hadRoom)
  => got.colorIndex = asked[got.filename].colorIndex

\* The colour saved for a.jpg, which is not the current LED colour, is
\* returned after a save for another file name has filled the table.
C20_Witness ==
  /\ lastOp = "getThemeColorPreference"
  /\ currentMode # MODE_WEATHER
  /\ got.filename = "a.jpg"
  /\ asked["a.jpg"] # NotAsked
  /\ asked["a.jpg"].hadRoom
  /\ got.colorIndex = asked["a.jpg"].colorIndex
  /\ got.colorIndex # currentLedColor
  /\ colorMappings[0].filename = "a.jpg"
  /\ numColorMappings = MAX_THEME_MAPPINGS

\* The table is well formed: the count is within the table, the valid
\* entries below it have a file name and a colour index in range, and no two
\* of them have the same file name.
TableWellFormed(table, n) ==
  /\ 0 <= n /\ n <= MAX_THEME_MAPPINGS
  /\ \A i \in 0 .. (n - 1) :
       table[i].isValid =>
         /\ strlen(table[i].filename) > 0
         /\ table[i].colorIndex >= 0 /\ table[i].colorIndex < COLOR_TOTAL
         /\ \A j \in 0 .. (n - 1) :
              (j # i /\ table[j].isValid) => table[j].filename # table[i].filename

\* C21: in every state reached by saveThemeColorPreference,
\* resetAllColorMappings and loadThemeColorMappings the colour table is well
\* formed.
C21_TableWellFormed == TableWellFormed(colorMappings, numColorMappings)

\* The request that saveThemeColorPreference turns down: a file name that is
\* empty or of 32 or more characters, a colour index outside the LED
\* colours, or weather mode.
BadRequest(r) ==
  \/ Len(r.filename) = 0 \/ Len(r.filename) >= 32
  \/ r.colorIndex \notin 0 .. (COLOR_TOTAL - 1)
  \/ currentMode = MODE_WEATHER

\* The request names the colour that the table holds for its file name: the
\* colour of the first valid entry with the name, which is the one that is
\* looked up.
StoredAlready(r) ==
  \E i \in 0 .. (numColorMappings - 1) :
    /\ colorMappings[i].isValid
    /\ colorMappings[i].filename = r.filename
    /\ colorMappings[i].colorIndex = r.colorIndex
    /\ \A j \in 0 .. (i - 1) :
         ~(colorMappings[j].isValid /\ colorMappings[j].filename = r.filename)

\* C22: a call of saveThemeColorPreference with a bad request leaves the
\* table, the count and the mappings file as they were and does not write
\* the file; a call with the colour already stored for the file name does
\* not write the file.
C22_BadRequestsChangeNothing ==
  [][lastOp' = "saveThemeColorPreference" =>
       /\ BadRequest(request') =>
            /\ colorMappings' = colorMappings
            /\ numColorMappings' = numColorMappings
            /\ colorMapFile' = colorMapFile
            /\ ~fileWritten'
       /\ (~BadRequest(request') /\ StoredAlready(request')) =>
            /\ ~fileWritten'
            /\ colorMapFile' = colorMapFile]_vars

\* A bad request was made of a table that holds a mapping and whose file has
\* been written.
C22_Witness ==
  /\ lastOp = "saveThemeColorPreference"
  /\ BadRequest(request)
  /\ currentMode # MODE_WEATHER
  /\ numColorMappings > 0
  /\ colorMapFile.exists
  /\ ~fileWritten

\* The themes in the order in which setThemeFromFilename is to try them.
ThemeOrder ==
  <<[name |-> "ironman", id |-> 1, color |-> IronmanBlue],
    [name |-> "hulk", id |-> 2, color |-> HulkGreen],
    [name |-> "captain", id |-> 3, color |-> CaptainBlue],
    [name |-> "thor", id |-> 4, color |-> ThorYellow],
    [name |-> "widow", id |-> 5, color |-> WidowRed],
    [name |-> "spiderman", id |-> 6, color |-> WidowRed]>>

\* Two characters are the same letter in either case, or the same character.
SameLetter(a, b) ==
  \/ a = b
  \/ \E k \in 1 .. 26 :
       {a, b} \subseteq {SubSeq(UpperCase, k, k), SubSeq(LowerCase, k, k)}

\* The name occurs in the file name, whatever the case of the letters.
OccursIn(name, filename) ==
  \E i \in 0 .. (Len(filename) - Len(name)) :
    \A k \in 1 .. Len(name) :
      SameLetter(SubSeq(filename, i + k, i + k), SubSeq(name, k, k))

\* The first theme of the order whose name occurs in the file name, the
\* first of all when none does.
SelectedTheme(filename) ==
  LET hits == {k \in 1 .. Len(ThemeOrder) : OccursIn(ThemeOrder[k].name, filename)}
  IN IF hits = {} THEN ThemeOrder[1]
     ELSE ThemeOrder[CHOOSE k \in hits : \A j \in hits : k <= j]

\* The theme that each of the file names is to select.
SelectedThemeOf == [filename \in ThemeFiles |-> SelectedTheme(filename)]

FirmwareModes ==
  {MODE_ARC_DIGITAL, MODE_ARC_ANALOG, MODE_PIPBOY, MODE_WEATHER, MODE_APPLE_RINGS}

\* C24: in every mode that the firmware defines, loadSavedThemeAndMode right
\* after saveThemeAndMode returns true and gives the saved mode and theme
\* id; and whenever loadSavedThemeAndMode returns false, the two ints it was
\* given hold what they held before.
C24_SettingsRoundTrip ==
  [][lastOp' = "loadSavedThemeAndMode" =>
       /\ (lastOp = "saveThemeAndMode" /\ currentMode \in FirmwareModes) =>
            /\ loadCall'.result
            /\ loadCall'.loadedMode = currentMode
            /\ loadCall'.loadedThemeId = currentThemeId
       /\ ~loadCall'.result =>
            /\ loadCall'.loadedMode = loadCall'.priorMode
            /\ loadCall'.loadedThemeId = loadCall'.priorThemeId]_vars

====
